---- MODULE Spec2Model ----
(***************************************************************************)
(* Retrieval engine of wget2 (src/wget.c): the main thread, the optional   *)
(* input thread, the downloader threads, the signal handler, the job       *)
(* queues of the hosts and the blacklist.                                  *)
(*                                                                         *)
(* The host registry, the job queue and the blacklist (host.c, job.c,      *)
(* blacklist.c) and the condition variables of libwget are not part of the *)
(* sources at hand; they are modelled from the specification (sections 3,  *)
(* 4.2 - 4.4 and 5) and marked so in the model map.                        *)
(***************************************************************************)
EXTENDS Integers, Sequences, FiniteSets, TLC

(***************************************************************************)
(* Bounds of the model                                                     *)
(***************************************************************************)
\* lines the input thread reads before end of input
MaxInput == 1

\* the downloaders: config.max_threads is 2 in every run explored
Workers == {1, 2}
\* the main thread
MainT == 0
\* the input thread
InputT == 3
Threads == Workers \cup {MainT, InputT}

Hosts == {"h", "g"}
RobotsPath == "/robots.txt"
Paths == {RobotsPath, "/a", "/b", "/c", "/d"}
Iris == [host : Hosts, path : Paths]
\* the URLs that arrive on standard input
InputIris == { u \in Iris : u.host = "h" }

NoJob == 0
NoHost == "-"
\* owner of a mutex that is not locked
Free == -1

VARIABLES
    config,            \* the options of the run (constant after init())
    env,               \* the command line, the input and the server of the run
    terminate,         \* static volatile int terminate
    aborted,           \* abort() has been called
    nsigint,           \* SIGINT signals delivered so far
    nsigterm,          \* SIGTERM signals delivered so far
    blacklist,         \* blacklist.c: the URIs admitted so far
    hosts,             \* host.c: host entry per host key
    jobs,              \* every JOB created so far, indexed by its id
    advanced,          \* history of struct stats: the counters that add_statistics() has
                       \* advanced, as triples of the status code, the counter and
                       \* whether the response is the one to a part request
    opened,            \* history: status codes other than 200 and 206 of the responses
                       \* _get_header() opened a file for
    created,           \* history: number of jobs created per URI
    offered,           \* history: number of admission attempts per URI
    early,             \* history: jobs dispatched before the robots job of their host was done
    robots_done,       \* history: hosts whose robots job got its response
    main_mutex,        \* owner of main_mutex
    downloader_mutex,  \* owner of downloader_mutex
    known_urls_mutex,  \* owner of known_urls_mutex
    etags,             \* static wget_stringmap_t *etags: the ETag values seen
    hd,                \* per downloader: the HEAD request it handles outside a run
    todo,              \* per thread: URLs the thread still has to add
    main_pc,           \* position of main()
    input_pc,          \* position of input_thread()
    input_tid,         \* static wget_thread_t input_tid (0: none)
    input_left,        \* lines still to arrive on stdin
    nthreads,          \* int nthreads
    wk,                \* per downloader: locals of downloader_thread()
    quota,             \* static long long quota
    saved,             \* history: the body bytes written to files
    exit_status,       \* options.c: static int exit_status
    reported,          \* history: the status codes passed to set_exit_status()
    rc_files,          \* options.c: the configuration files, each a sequence of lines
    rc_stack,          \* the calls of _read_config() under way, the innermost last
    rc_level,          \* _read_config(): static int level
    rc_out,            \* history: the lines _read_config() has handed to _parse_option()
    rc_ret,            \* the value the outermost _read_config() has returned
    argv,              \* parse_command_line(): the arguments after argv[0]
    arg_n,             \* parse_command_line(): int n
    first_arg,         \* parse_command_line(): the position of *first_arg (0: NULL)
    parse_pc,          \* position of parse_command_line(): "args" or "done"
    parse_ret,         \* the value parse_command_line() has returned
    argv0,             \* history: the arguments when parse_command_line() was called
    config0            \* history: the options when parse_command_line() was called

cfgvars == <<config, env>>
sigvars == <<terminate, aborted, nsigint, nsigterm>>
queuevars == <<blacklist, hosts, jobs, created, offered, early, robots_done>>
lockvars == <<main_mutex, downloader_mutex, known_urls_mutex>>
mainvars == <<main_pc, nthreads>>
inputvars == <<input_pc, input_tid, input_left>>
statvars == <<advanced, opened>>
rcvars == <<rc_files, rc_stack, rc_level, rc_out, rc_ret>>
pcvars == <<argv, arg_n, first_arg, parse_pc, parse_ret, argv0, config0>>
optvars == <<rcvars, pcvars>>
headvars == <<etags, hd>>
acctvars == <<quota, saved, exit_status, reported, statvars, optvars, known_urls_mutex,
              headvars>>
runvars == <<env, terminate, aborted, nsigint, nsigterm, blacklist, hosts, jobs,
          created, offered, early, robots_done, main_mutex, downloader_mutex,
          todo, main_pc, input_pc, input_tid, input_left, nthreads, wk,
          quota, saved, exit_status, reported, advanced, opened, known_urls_mutex>>
enginevars == <<config, runvars>>
vars == <<enginevars, optvars, headvars>>

(***************************************************************************)
(* URIs                                                                    *)
(***************************************************************************)
Iri(h, p) == [host |-> h, path |-> p]

\* wget_iri_parse_base(iri, "/robots.txt", encoding)
RobotsIri(iri) == Iri(iri.host, RobotsPath)

\* the links the document at iri contains, in document order: /a links /b (on the
\* site "cross": /b of the host g) and, on the site "deep", /c links /d
Links(e, iri) ==
    IF iri.path = "/a" THEN <<Iri(IF e.site = "cross" THEN "g" ELSE iri.host, "/b")>>
    ELSE IF e.site = "deep" /\ iri.path = "/c" THEN <<Iri(iri.host, "/d")>>
    ELSE <<>>

\* the Location a redirecting server answers for iri: /a redirects to /b and /b to /a,
\* on the site "deep" /b redirects to /c
Location(e, iri) ==
    IF iri.path = "/a" THEN Iri(iri.host, "/b")
    ELSE IF e.site = "deep" /\ iri.path = "/b" THEN Iri(iri.host, "/c")
    ELSE Iri(iri.host, "/a")

(***************************************************************************)
(* Options                                                                 *)
(***************************************************************************)
ChunkSize == 2
\* config.http2_request_window is not an option of the command line: it keeps its
\* default of 30; the model scales it down to a window that the queue can fill
Http2RequestWindow == 2
\* the bytes that failed part responses may add to a file
MaxWritten == 2
\* Content-Length values of the server
Lengths == {ChunkSize, 2 * ChunkSize + 1, 3 * ChunkSize}

\* the lists of challenges of a server that offers several authentication schemes
Challenges ==
    { <<>>, <<"digest">>, <<"basic", "digest">>, <<"digest", "basic">>,
      <<"ntlm", "digest", "basic">> }

Options ==
    [ recursive |-> FALSE,           \* config.recursive
      robots |-> TRUE,               \* config.robots
      span_hosts |-> FALSE,          \* config.span_hosts
      chunk_size |-> 0,              \* config.chunk_size
      http2_request_window |-> Http2RequestWindow,   \* config.http2_request_window
      max_threads |-> 2,             \* config.max_threads
      tries |-> 1,                   \* config.tries
      max_redirect |-> 1,            \* config.max_redirect
      level |-> 1,                   \* config.level
      save_headers |-> FALSE,        \* config.save_headers
      timestamping |-> FALSE,        \* config.timestamping
      content_on_error |-> FALSE,    \* config.content_on_error
      connect_timeout |-> -1,        \* config.connect_timeout (options.c:840)
      dns_timeout |-> -1,            \* config.dns_timeout
      read_timeout |-> 900 * 1000,   \* config.read_timeout
      wait |-> 0,                    \* config.wait: the pause before a request, in ms
      spider |-> FALSE,              \* config.spider
      quota |-> 0,                   \* config.quota (0: none)
      clobber |-> TRUE,              \* config.clobber (options.c:861)
      directories |-> TRUE,          \* config.directories (options.c:858)
      adjust_extension |-> FALSE,    \* config.adjust_extension
      input |-> "none" ]             \* config.input_file: none, "-" (async) or a metalink file

Environment ==
    [ seeds |-> <<>>,                \* the URLs on the command line
      http2 |-> FALSE,               \* the server negotiates HTTP/2
      codes |-> {200},               \* the status codes the server answers a GET with
      lengths |-> {2 * ChunkSize},   \* the Content-Length values it answers a HEAD with
      site |-> "flat",               \* the documents of the server and their links
      challenges |-> {<<"basic">>},  \* the challenges of its 401 and 407 responses
      tls |-> FALSE,                 \* the TLS handshake of a connection may fail
      unreliable |-> FALSE ]         \* connecting, sending and receiving may fail

\* the runs explored: options and environment
Runs ==
    { \* recursive retrieval of one seed, with robots.txt, redirects and authentication
      [ config |-> [Options EXCEPT !.recursive = TRUE],
        env |-> [Environment EXCEPT !.seeds = <<Iri("h", "/a")>>,
                                    !.codes = {200, 301, 401}, !.unreliable = TRUE] ],
      \* the seeds name robots.txt itself
      [ config |-> [Options EXCEPT !.recursive = TRUE],
        env |-> [Environment EXCEPT !.seeds = <<Iri("h", RobotsPath), Iri("h", "/a")>>,
                                    !.codes = {200, 404}] ],
      \* chunked download
      [ config |-> [Options EXCEPT !.chunk_size = ChunkSize],
        env |-> [Environment EXCEPT !.seeds = <<Iri("h", "/a"), Iri("h", "/b")>>,
                                    !.lengths = {ChunkSize, 2 * ChunkSize}] ],
      [ config |-> [Options EXCEPT !.chunk_size = ChunkSize],
        env |-> [Environment EXCEPT !.seeds = <<Iri("h", "/a")>>, !.lengths = Lengths] ],
      \* a redirecting server and HEAD requests first
      [ config |-> [Options EXCEPT !.chunk_size = ChunkSize],
        env |-> [Environment EXCEPT !.seeds = <<Iri("h", "/a")>>, !.codes = {200, 301},
                                    !.lengths = {ChunkSize}] ],
      \* --max-redirect=0
      [ config |-> [Options EXCEPT !.max_redirect = 0],
        env |-> [Environment EXCEPT !.seeds = <<Iri("h", "/a")>>, !.codes = {200, 301}] ],
      \* recursion of depth 1 on a site with a redirect between two documents
      [ config |-> [Options EXCEPT !.recursive = TRUE, !.robots = FALSE],
        env |-> [Environment EXCEPT !.seeds = <<Iri("h", "/a")>>, !.codes = {200, 301},
                                    !.site = "deep"] ],
      \* a server that asks for authentication, with several challenges or with none
      [ config |-> Options,
        env |-> [Environment EXCEPT !.seeds = <<Iri("h", "/a")>>, !.codes = {200, 401},
                                    !.challenges = Challenges] ],
      \* a server behind a proxy: both ask for authentication
      [ config |-> Options,
        env |-> [Environment EXCEPT !.seeds = <<Iri("h", "/a")>>, !.codes = {401, 407}] ],
      \* --quota: the first file fills the quota
      [ config |-> [Options EXCEPT !.quota = 1],
        env |-> [Environment EXCEPT !.seeds = <<Iri("h", "/a"), Iri("h", "/b")>>] ],
      \* two downloaders that report different errors
      [ config |-> Options,
        env |-> [Environment EXCEPT !.seeds = <<Iri("h", "/a"), Iri("h", "/b")>>,
                                    !.codes = {401, 403, 404}, !.challenges = {<<>>}] ],
      \* recursive retrieval that spans hosts: /a of h links /b of g
      [ config |-> [Options EXCEPT !.recursive = TRUE, !.span_hosts = TRUE],
        env |-> [Environment EXCEPT !.seeds = <<Iri("h", "/a")>>, !.site = "cross"] ],
      \* timestamping against a server whose documents may be unchanged
      [ config |-> [Options EXCEPT !.timestamping = TRUE],
        env |-> [Environment EXCEPT !.seeds = <<Iri("h", "/a"), Iri("h", "/b")>>,
                                    !.codes = {200, 304}] ],
      \* the same with --content-on-error
      [ config |-> [Options EXCEPT !.timestamping = TRUE, !.content_on_error = TRUE],
        env |-> [Environment EXCEPT !.seeds = <<Iri("h", "/a"), Iri("h", "/b")>>,
                                    !.codes = {200, 304}] ],
      \* a server whose TLS handshake may fail
      [ config |-> Options,
        env |-> [Environment EXCEPT !.seeds = <<Iri("h", "/a"), Iri("h", "/b")>>,
                                    !.codes = {404}, !.tls = TRUE] ],
      \* a metalink file whose mirror asks for authentication
      [ config |-> [Options EXCEPT !.input = "metalink"],
        env |-> [Environment EXCEPT !.codes = {200, 401}] ],
      \* HTTP/2 with a request window
      [ config |-> Options,
        env |-> [Environment EXCEPT !.seeds = <<Iri("h", "/a"), Iri("h", "/b")>>,
                                    !.http2 = TRUE, !.codes = {200, 407},
                                    !.unreliable = TRUE] ],
      \* URLs from standard input, read by the input thread
      [ config |-> [Options EXCEPT !.input = "async", !.save_headers = TRUE],
        env |-> [Environment EXCEPT !.seeds = <<Iri("h", "/a")>>, !.codes = {200, 301}] ],
      [ config |-> [Options EXCEPT !.input = "async"],
        env |-> Environment ],
      \* a metalink file as input
      [ config |-> [Options EXCEPT !.input = "metalink", !.recursive = TRUE],
        env |-> Environment ] }

\* the runs in which signals arrive
SigRuns ==
    { [ config |-> [Options EXCEPT !.input = "async"],
        env |-> [Environment EXCEPT !.seeds = <<Iri("h", "/a")>>, !.http2 = TRUE,
                                    !.codes = {200, 301, 404}, !.unreliable = TRUE] ],
      \* --wait=0.001: a pause before every request
      [ config |-> [Options EXCEPT !.wait = 1],
        env |-> [Environment EXCEPT !.seeds = <<Iri("h", "/a"), Iri("h", "/b")>>] ] }

\* the runs with URLs from standard input
LiveRuns ==
    SigRuns \cup { [ config |-> [Options EXCEPT !.input = "async"], env |-> Environment ] }

(***************************************************************************)
(* The exit status (options.c)                                             *)
(***************************************************************************)
WG_EXIT_STATUS_NO_ERROR == 0
WG_EXIT_STATUS_PARSE_INIT == 2
WG_EXIT_STATUS_TLS == 5
WG_EXIT_STATUS_AUTH == 6
WG_EXIT_STATUS_REMOTE == 8

\* set_exit_status(): the value of exit_status after the call, from the value es the
\* call has read
set_exit_status(es, status) ==
    IF es # 0
    THEN (IF status < es THEN status ELSE es)
    ELSE status

(***************************************************************************)
(* Jobs, parts and hosts                                                   *)
(***************************************************************************)
NoIri == [host |-> NoHost, path |-> ""]

\* job_init()
job_init(iri) ==
    [ iri |-> iri, host |-> NoHost, inuse |-> FALSE, robotstxt |-> FALSE,
      head_first |-> FALSE, sitemap |-> FALSE, requested_by_user |-> FALSE,
      redirection_level |-> 0, level |-> 0, referer |-> NoIri,
      metalink |-> 0, parts |-> <<>>, part |-> 0,
      challenges |-> <<>>, proxy_challenges |-> <<>>,
      auth_failed |-> FALSE,  \* a 401 response has ended the authentication of the job
      server_error |-> FALSE, \* a 4xx response other than 401, or a 5xx response, has arrived
      auth_failure_count |-> 0,
      original_url |-> NoIri,
      redirected |-> FALSE,   \* a 3xx response with a Location has been processed
      depth |-> 0,            \* the links followed from a seed to the URI of the job
      written |-> 0,          \* the bytes the part responses have written to the file
      head_length |-> 0,      \* the Content-Length of the response to the HEAD request
      fetched |-> FALSE ]     \* a GET without Range has been answered with 200

NoHostEntry ==
    [ exists |-> FALSE, robot_job |-> NoJob, queue |-> <<>>, failures |-> 0,
      blocked |-> FALSE, robots |-> FALSE, disallow |-> {},
      tls_failed |-> FALSE,       \* history: a connection to the host failed in the TLS handshake
      reset_code |-> 0 ]          \* history: status code of the 4xx or 5xx response that
                                  \* last reset a nonzero failure counter

SeqToSet(s) == { s[i] : i \in 1..Len(s) }

RemoveFromSeq(s, x) == SelectSeq(s, LAMBDA y : y # x)

\* queue_size(): the jobs of all hosts, robots jobs included
queue_size(hs) ==
    LET n(h) == Len(hs[h].queue) + (IF hs[h].robot_job # NoJob THEN 1 ELSE 0)
        RECURSIVE sum(_)
        sum(S) == IF S = {} THEN 0
                  ELSE LET h == CHOOSE x \in S : TRUE IN n(h) + sum(S \ {h})
    IN sum(Hosts)

\* queue_empty()
queue_empty(hs) == queue_size(hs) = 0

\* the jobs that are in the queue of some host
Queued(hs) ==
    UNION { SeqToSet(hs[h].queue) \cup (IF hs[h].robot_job # NoJob THEN {hs[h].robot_job} ELSE {})
            : h \in Hosts }

(***************************************************************************)
(* The frontier: blacklist, host registry and job queues                   *)
(***************************************************************************)
\* the shared queue state as one value
QS == [ blacklist |-> blacklist, hosts |-> hosts, jobs |-> jobs,
        created |-> created, offered |-> offered, sig |-> FALSE ]

SetQ(Q) ==
    /\ blacklist' = Q.blacklist
    /\ hosts' = Q.hosts
    /\ jobs' = Q.jobs
    /\ created' = Q.created
    /\ offered' = Q.offered

\* blacklist_add(): TRUE iff the URI was not in the blacklist before
blacklist_add(bl, iri) == iri \notin bl

\* the blacklist after blacklist_add()
Admit(Q, iri) ==
    [Q EXCEPT !.blacklist = @ \cup {iri},
              !.offered[iri] = IF @ < 2 THEN @ + 1 ELSE @]

\* host_add(): TRUE iff a new host entry has been created
host_add(hs, iri) == ~hs[iri.host].exists

NewHost(Q, iri) ==
    IF host_add(Q.hosts, iri)
    THEN [Q EXCEPT !.hosts[iri.host] = [NoHostEntry EXCEPT !.exists = TRUE]]
    ELSE Q

\* host_add_job(): append a copy of the job to the queue of the host
host_add_job(Q, h, job) ==
    LET id == Len(Q.jobs) + 1
    IN [Q EXCEPT !.jobs = Append(@, [job EXCEPT !.host = h]),
                 !.hosts[h].queue = Append(@, id),
                 !.created = IF job.iri \in Iris
                             THEN [@ EXCEPT ![job.iri] = @ + 1] ELSE @]

\* host_add_robotstxt_job(): the robots job of the host, fetched before all others
host_add_robotstxt_job(Q, h, iri) ==
    LET id == Len(Q.jobs) + 1
    IN [Q EXCEPT !.jobs = Append(@, [job_init(iri) EXCEPT !.host = h, !.robotstxt = TRUE]),
                 !.hosts[h].robot_job = id,
                 !.created[iri] = @ + 1]

\* the new host entry gets its robots job (wget.c:546-554, 750-758)
RobotsJobFor(Q, cfg, iri, isnew) ==
    IF isnew /\ cfg.recursive /\ cfg.robots
    THEN LET Q1 == Admit(Q, RobotsIri(iri))
         IN IF blacklist_add(Q.blacklist, RobotsIri(iri))
            THEN host_add_robotstxt_job(Q1, iri.host, RobotsIri(iri))
            ELSE Q1
    ELSE Q

\* add_url_to_queue(): the part under downloader_mutex
add_url_to_queue(Q, cfg, iri) ==
    IF ~blacklist_add(Q.blacklist, iri)
    THEN Admit(Q, iri)
    ELSE LET isnew == host_add(Q.hosts, iri)
             Q1 == RobotsJobFor(NewHost(Admit(Q, iri), iri), cfg, iri, isnew)
             new_job == [job_init(iri) EXCEPT
                            !.requested_by_user = cfg.recursive,
                            !.head_first = (cfg.spider \/ cfg.chunk_size # 0)]
         IN host_add_job(Q1, iri.host, new_job)

\* add_url(): the check before the lock is taken; TRUE iff add_url returns at once
add_url_stops(cfg, job, flags) ==
    /\ flags = "redirection"
    /\ cfg.max_redirect # 0
    /\ job.redirection_level >= cfg.max_redirect

\* config.domains: without --span-hosts, add_url_to_queue() collects the hosts of
\* the URLs given by the user (wget.c:558-562)
domains(Q) == { Q.jobs[i].host : i \in { k \in 1..Len(Q.jobs) : Q.jobs[k].requested_by_user } }

\* add_url() after the URI has passed blacklist_add() (wget.c:705-851)
add_url_new(Q, cfg, parent, iri, flags) ==
    LET isnew == host_add(Q.hosts, iri)
        Q0 == Admit(Q, iri)
        Q1 == RobotsJobFor(NewHost(Q0, iri), cfg, iri, isnew)
        job == Q.jobs[parent]
        new_job == [job_init(iri) EXCEPT
                       !.redirection_level = IF flags = "redirection"
                                             THEN job.redirection_level + 1 ELSE 0,
                       !.level = IF flags = "redirection" THEN 0 ELSE job.level + 1,
                       !.referer = IF flags = "redirection" THEN job.referer ELSE job.iri,
                       !.original_url = IF flags = "redirection" THEN job.iri ELSE NoIri,
                       !.depth = IF flags = "redirection" THEN job.depth ELSE job.depth + 1,
                       !.head_first = (cfg.spider \/ cfg.chunk_size # 0),
                       !.sitemap = (flags = "sitemap")]
    IN IF cfg.recursive /\ ~cfg.span_hosts /\ iri.host \notin domains(Q)
       THEN Q0
       ELSE IF ~isnew /\ Q.hosts[iri.host].robots /\ iri.path \in Q.hosts[iri.host].disallow
       THEN Q0
       ELSE [host_add_job(Q1, iri.host, new_job) EXCEPT !.sig = TRUE]

\* add_url() without the return on a URI that the blacklist knows already
add_url_known(Q, cfg, parent, iri, flags) == add_url_new(Q, cfg, parent, iri, flags)

\* add_url(): the part under downloader_mutex; .sig tells whether worker_cond is signalled
add_url(Q, cfg, parent, iri, flags) ==
    IF ~blacklist_add(Q.blacklist, iri)
    THEN Admit(Q, iri)
    ELSE add_url_new(Q, cfg, parent, iri, flags)

\* metalink_parse_localfile(): the metalink job is attached to the host of the first mirror
metalink_parse_localfile(Q, mirror) ==
    LET job == [job_init(NoIri) EXCEPT !.metalink = 2 * ChunkSize,
                   !.parts = <<[position |-> 0, length |-> ChunkSize, done |-> FALSE, inuse |-> FALSE],
                               [position |-> ChunkSize, length |-> ChunkSize, done |-> FALSE, inuse |-> FALSE]>>]
    IN host_add_job(NewHost(Q, mirror), mirror.host, job)

\* the first part of the job that no worker has taken (0: none)
FreePart(job) ==
    LET free == { i \in 1..Len(job.parts) : ~job.parts[i].inuse }
    IN IF free = {} THEN 0 ELSE CHOOSE i \in free : \A k \in free : i <= k

JobFree(job) == IF job.parts # <<>> THEN FreePart(job) # 0 ELSE ~job.inuse

\* the job the host has to offer (acquire_job: robots job first, then FIFO)
HostCandidate(hs, js, h) ==
    IF ~hs[h].exists \/ hs[h].blocked THEN NoJob
    ELSE IF hs[h].robot_job # NoJob
         THEN (IF js[hs[h].robot_job].inuse THEN NoJob ELSE hs[h].robot_job)
         ELSE LET free == { i \in 1..Len(hs[h].queue) : JobFree(js[hs[h].queue[i]]) }
              IN IF free = {} THEN NoJob
                 ELSE hs[h].queue[CHOOSE i \in free : \A k \in free : i <= k]

\* host_get_job(): the jobs the call may return, for the host given or for any host
host_get_job(hs, js, host) ==
    IF host # NoHost THEN {HostCandidate(hs, js, host)} \ {NoJob}
    ELSE {HostCandidate(hs, js, h) : h \in Hosts} \ {NoJob}

\* the job is marked as taken; a job with parts hands out its next free part
Acquire(js, id) ==
    IF js[id].parts # <<>>
    THEN [js EXCEPT ![id].parts[FreePart(js[id])].inuse = TRUE, ![id].part = FreePart(js[id])]
    ELSE [js EXCEPT ![id].inuse = TRUE, ![id].part = 0]

\* host_remove_job()
host_remove_job(hs, h, id) ==
    IF h = NoHost THEN hs
    ELSE IF hs[h].robot_job = id THEN [hs EXCEPT ![h].robot_job = NoJob]
    ELSE [hs EXCEPT ![h].queue = RemoveFromSeq(@, id)]

\* host_final_failure(): the host is blocked and its jobs are discarded
host_final_failure(hs, h) ==
    [hs EXCEPT ![h].blocked = TRUE, ![h].queue = <<>>, ![h].robot_job = NoJob]

\* host_increase_failure()
host_increase_failure(hs, cfg, h) ==
    LET hs1 == [hs EXCEPT ![h].failures = @ + 1]
    IN IF hs1[h].failures > cfg.tries THEN host_final_failure(hs1, h) ELSE hs1

\* host_reset_failure()
host_reset_failure(hs, h) == [hs EXCEPT ![h].failures = 0]

\* host_release_jobs(): the jobs and parts the downloader holds go back to the queue
RECURSIVE host_release_jobs(_, _)
host_release_jobs(js, held) ==
    IF held = <<>> THEN js
    ELSE LET e == Head(held)
             js1 == IF e.acq # 0
                    THEN (IF js[e.job].parts[e.acq].done THEN js
                          ELSE [js EXCEPT ![e.job].parts[e.acq].inuse = FALSE])
                    ELSE [js EXCEPT ![e.job].inuse = FALSE]
         IN host_release_jobs(js1, Tail(held))

(***************************************************************************)
(* Responses and their processing                                          *)
(***************************************************************************)
NoResp == [code |-> 0, challenges |-> <<>>, length |-> 0, body |-> 0, header |-> 1,
           ctype |-> "", etag |-> "", disallow |-> {}, location |-> NoIri, links |-> <<>>,
           hlinks |-> <<>>]

\* what the server may answer to the request req of the job
Responses(e, job, req) ==
    IF req.head
    THEN { [NoResp EXCEPT !.code = 200, !.length = l, !.ctype = "other"] : l \in e.lengths }
         \cup (IF 301 \in e.codes
               THEN { [NoResp EXCEPT !.code = 301, !.location = Location(e, job.iri)] }
               ELSE {})
    ELSE IF req.rng # 0
    THEN { [NoResp EXCEPT !.code = 206, !.length = job.parts[req.rng].length,
                          !.body = job.parts[req.rng].length, !.ctype = "other"],
           [NoResp EXCEPT !.code = 404] }
         \cup (IF 401 \in e.codes
               THEN { [NoResp EXCEPT !.code = 401, !.challenges = ch] : ch \in e.challenges }
               ELSE {})
         \cup (IF job.written < MaxWritten
               THEN { [NoResp EXCEPT !.code = 503, !.length = 1, !.body = 1] }
               ELSE {})
    ELSE UNION { IF c = 200
                 THEN (IF job.iri.path = RobotsPath
                       THEN { [NoResp EXCEPT !.code = 200, !.length = 1, !.body = 1,
                                             !.ctype = "plain", !.disallow = d] : d \in {{}, {"/b"}} }
                       ELSE LET l == IF job.head_length # 0 THEN job.head_length ELSE 1
                            IN { [NoResp EXCEPT !.code = 200, !.length = l, !.body = l,
                                    !.links = Links(e, job.iri),
                                    !.ctype = IF Links(e, job.iri) # <<>> THEN "html"
                                              ELSE "other"] })
                 ELSE IF c = 404
                 THEN { [NoResp EXCEPT !.code = 404, !.length = 1, !.body = 1] }
                 ELSE IF c = 301
                 THEN { [NoResp EXCEPT !.code = 301, !.location = Location(e, job.iri)] }
                 ELSE IF c \in {401, 407}
                 THEN { [NoResp EXCEPT !.code = c, !.challenges = ch] : ch \in e.challenges }
                 ELSE { [NoResp EXCEPT !.code = c] }
               : c \in e.codes }

\* process_response_header(): the job afterwards, the return value, the URL handed to add_url
\* the response is an error of the server: 4xx other than 401 and other than 404 for a
\* robots job, or 5xx
ErrorResponse(job, resp) ==
    \/ /\ resp.code \div 100 = 4
       /\ resp.code # 401
       /\ ~(resp.code = 404 /\ job.robotstxt)
    \/ resp.code \div 100 = 5

\* .status: the codes passed to set_exit_status(), in the order of the calls
process_response_header(cfg, job, resp) ==
    LET remote == IF /\ resp.code \div 100 = 4 /\ resp.code # 416
                     /\ (job.head_first \/ (resp.code = 404 /\ ~job.robotstxt))
                  THEN <<WG_EXIT_STATUS_REMOTE>> ELSE <<>>
    IN IF resp.code = 401
       THEN LET j1 == [job EXCEPT !.auth_failure_count = @ + 1]
            IN IF j1.auth_failure_count > 1 \/ resp.challenges = <<>>
               THEN [job |-> [j1 EXCEPT !.auth_failed = TRUE], ret |-> 1, urls |-> <<>>,
                     status |-> remote \o <<WG_EXIT_STATUS_AUTH>>]
               ELSE [job |-> [j1 EXCEPT !.challenges = resp.challenges, !.inuse = FALSE],
                     ret |-> 1, urls |-> <<>>, status |-> remote]
       ELSE IF resp.code = 407
       THEN IF job.proxy_challenges # <<>> \/ resp.challenges = <<>>
            THEN [job |-> job, ret |-> 1, urls |-> <<>>,
                  status |-> remote \o <<WG_EXIT_STATUS_AUTH>>]
            ELSE [job |-> [job EXCEPT !.proxy_challenges = resp.challenges, !.inuse = FALSE],
                  ret |-> 1, urls |-> <<>>, status |-> remote]
       ELSE IF resp.code \div 100 = 2 \/ resp.code \div 100 >= 4 \/ resp.code = 304
       THEN [job |-> job, ret |-> 0, urls |-> <<>>, status |-> remote]
       ELSE IF resp.location # NoIri
       THEN [job |-> [job EXCEPT !.redirected = TRUE], ret |-> 0,
             urls |-> IF add_url_stops(cfg, job, "redirection") THEN <<>>
                      ELSE <<[iri |-> resp.location, flags |-> "redirection"]>>,
             status |-> remote]
       ELSE [job |-> job, ret |-> 0, urls |-> <<>>, status |-> remote]

\* the pieces, counted as the quotient plus one
PiecesQuotient(size, chunk) ==
    [it \in 1..(size \div chunk + 1) |-> [position |-> (it - 1) * chunk, length |-> chunk]]

\* the pieces of the metalink that process_head_response() builds (wget.c:1536-1547):
\* npieces pieces of length chunk_size each, at the multiples of chunk_size
Pieces(size, chunk) ==
    LET npieces == (size + chunk - 1) \div chunk
    IN [it \in 1..npieces |-> [position |-> (it - 1) * chunk, length |-> chunk]]

\* job_validate_file() for a file that does not exist yet: one part per piece, the
\* parts follow each other and the last one ends with the file
job_create_parts(size, pieces) ==
    [i \in 1..Len(pieces) |->
        [position |-> pieces[i].position,
         length |-> IF size - pieces[i].position < pieces[i].length
                    THEN size - pieces[i].position ELSE pieces[i].length,
         done |-> FALSE, inuse |-> FALSE]]

\* the values of Content-Type: text/html, text/css, application/xhtml+xml,
\* application/atom+xml, application/rss+xml, application/xml, application/x-gzip,
\* text/plain, image/png, application/octet-stream; "" is a response without the header
ParsedTypes == {"html", "css", "xhtml", "atom", "rss"}

\* process_head_response(): the test of Content-Type that ends the job
\* (wget.c:1506-1514); wget_strcasecmp_ascii() is 0 for equal strings
head_type_rejected(job, resp) ==
    /\ resp.ctype \notin ParsedTypes
    /\ (~job.sitemap \/ resp.ctype = "xml")
    /\ (~job.sitemap \/ resp.ctype = "gzip")
    /\ (~job.sitemap \/ resp.ctype = "plain")

\* process_head_response() reaches the section of etag_mutex (wget.c:1516-1522)
head_etag_put(cfg, job, resp) ==
    /\ cfg.spider \/ cfg.chunk_size = 0
    /\ resp.code = 200 /\ resp.ctype # ""
    /\ ~head_type_rejected(job, resp)
    /\ resp.etag # ""

\* wget_stringmap_put_noalloc(etags, resp->etag, NULL): the value returned and the map
wget_stringmap_put_noalloc(map, key) ==
    [rc |-> IF key \in map THEN 1 ELSE 0, map |-> map \cup {key}]

\* process_head_response(): the ETag values afterwards
head_etags(cfg, job, resp, map) ==
    IF head_etag_put(cfg, job, resp) THEN wget_stringmap_put_noalloc(map, resp.etag).map
    ELSE map

\* process_head_response() that chunks from Content-Length = chunk_size on
process_head_response_ge(cfg, job, resp, map) ==
    LET j1 == [job EXCEPT !.head_first = FALSE, !.head_length = resp.length]
    IN IF cfg.spider \/ cfg.chunk_size = 0
       THEN IF resp.code # 200 \/ resp.ctype = "" THEN j1
            ELSE IF head_type_rejected(job, resp) THEN j1
            ELSE IF resp.etag # "" /\ wget_stringmap_put_noalloc(map, resp.etag).rc # 0 THEN j1
            ELSE IF cfg.spider /\ ~cfg.recursive THEN j1
            ELSE [j1 EXCEPT !.inuse = FALSE]
       ELSE IF resp.length >= cfg.chunk_size
       THEN [j1 EXCEPT !.metalink = resp.length,
                       !.parts = job_create_parts(resp.length,
                                                  Pieces(resp.length, cfg.chunk_size)),
                       !.inuse = FALSE]
       ELSE [j1 EXCEPT !.inuse = FALSE]

\* process_head_response(): the job afterwards; map is the value of etags before
process_head_response(cfg, job, resp, map) ==
    LET j1 == [job EXCEPT !.head_first = FALSE, !.head_length = resp.length]
    IN IF cfg.spider \/ cfg.chunk_size = 0
       THEN IF resp.code # 200 \/ resp.ctype = "" THEN j1
            ELSE IF head_type_rejected(job, resp) THEN j1
            ELSE IF resp.etag # "" /\ wget_stringmap_put_noalloc(map, resp.etag).rc # 0 THEN j1
            ELSE IF cfg.spider /\ ~cfg.recursive THEN j1
            ELSE [j1 EXCEPT !.inuse = FALSE]
       ELSE IF resp.length > cfg.chunk_size
       THEN [j1 EXCEPT !.metalink = resp.length,
                       !.parts = job_create_parts(resp.length,
                                                  Pieces(resp.length, cfg.chunk_size)),
                       !.inuse = FALSE]
       ELSE [j1 EXCEPT !.inuse = FALSE]

\* _get_header(): whether a file is opened for the body (.outfd), and the bytes that
\* _prepare_file() adds to quota before it opens the file (wget.c:2663); _prepare_file()
\* opens no file if the quota was reached before (wget.c:2665-2668), old_quota is the
\* value that quota_modify_read() returns
get_header(cfg, job, resp, old_quota) ==
    IF job.head_first THEN [outfd |-> FALSE, quota |-> 0]
    ELSE IF job.part # 0 THEN [outfd |-> TRUE, quota |-> 0]
    ELSE IF resp.code \in {200, 206} \/ cfg.content_on_error
    THEN [outfd |-> ~(cfg.quota # 0 /\ old_quota >= cfg.quota),
          quota |-> IF cfg.save_headers THEN resp.header ELSE 0]
    ELSE [outfd |-> FALSE, quota |-> 0]

\* add_statistics(): the counter of struct stats that a response advances
add_statistics(job, resp) ==
    IF resp.code = 200
    THEN IF job.part # 0 THEN "nchunks" ELSE "ndownloads"
    ELSE IF resp.code \in {301, 302, 303, 307, 308} THEN "nredirects"
    ELSE IF resp.code = 304 THEN "nnotmodified"
    ELSE "nerrors"

\* _get_header() and _get_body(): the body of a response to a part request is written
\* to the file of the metalink at the position of job->part, whatever the status code
get_body(job, resp) ==
    IF ~job.head_first /\ job.part # 0
    THEN [job EXCEPT !.written = @ + resp.body]
    ELSE job

\* process_response_part(): the job afterwards; the part is the one job->part names
process_response_part(job, resp) ==
    LET p == job.part
        ok == resp.code \in {200, 206} /\ resp.body = job.parts[p].length
        j1 == IF ok THEN [job EXCEPT !.parts[p].done = TRUE] ELSE job
    IN IF j1.parts[p].done
       THEN IF \A i \in 1..Len(j1.parts) : j1.parts[i].done
            THEN [j1 EXCEPT !.inuse = TRUE]
            ELSE j1
       ELSE [j1 EXCEPT !.parts[p].inuse = FALSE]

\* the types of a Metalink description (wget.c:1670-1671)
MetalinkTypes == {"application/metalink4+xml", "application/metalink+xml"}

\* wget_strcasecmp_ascii() compares without regard to case: the type in lower case
LowerCase(type) ==
    IF type = "Application/Metalink4+XML" THEN "application/metalink4+xml" ELSE type

\* process_response(): top_link after the rel=duplicate link at index it, 0 is NULL,
\* with '>=' for '>' (wget.c:1678)
top_link_last(links, top, it) ==
    IF top = 0 \/ links[top].pri >= links[it].pri THEN it ELSE top

\* process_response(): top_link after the rel=duplicate link at index it, 0 is NULL
\* (wget.c:1678-1680)
top_link_of(links, top, it) ==
    IF top = 0 \/ links[top].pri > links[it].pri THEN it ELSE top

RECURSIVE link_loop(_, _, _)
\* process_response(): the loop over resp->links from index it on (wget.c:1667-1682),
\* the result is the index of metalink and of top_link, 0 is NULL
link_loop(links, it, top) ==
    IF it > Len(links) THEN [metalink |-> 0, top_link |-> top]
    ELSE IF links[it].rel = "describedby"
    THEN IF links[it].type # "" /\ LowerCase(links[it].type) \in MetalinkTypes
         THEN [metalink |-> it, top_link |-> top]
         ELSE link_loop(links, it + 1, top)
    ELSE IF links[it].rel = "duplicate"
    THEN link_loop(links, it + 1, top_link_of(links, top, it))
    ELSE link_loop(links, it + 1, top)

\* process_response(): the URI given to add_url() for the Link headers of the response,
\* NoIri if there is none (wget.c:1661-1693); resp.hlinks is resp->links
link_job(resp) ==
    IF resp.hlinks = <<>> THEN NoIri
    ELSE IF link_loop(resp.hlinks, 1, 0).metalink # 0
    THEN resp.hlinks[link_loop(resp.hlinks, 1, 0).metalink].uri
    ELSE IF link_loop(resp.hlinks, 1, 0).top_link # 0
    THEN resp.hlinks[link_loop(resp.hlinks, 1, 0).top_link].uri
    ELSE NoIri

\* process_response(): the URI of a Link header (flags "header"), or else the links
\* and the robots rules taken from the body
process_response(cfg, job, resp) ==
    IF link_job(resp) # NoIri
    THEN [ urls |-> << [iri |-> link_job(resp), flags |-> "header"] >>,
           robots |-> FALSE,
           disallow |-> {} ]
    ELSE
    LET recurse == /\ resp.code \in {200, 206}
                   /\ resp.body > 0
                   /\ cfg.recursive
                   /\ (cfg.level = 0 \/ job.level < cfg.level)
        html == recurse /\ resp.ctype = "html"
        robots == recurse /\ resp.ctype # "html" /\ ~job.sitemap /\ job.robotstxt
    IN [ urls |-> IF html
                  THEN [i \in 1..Len(resp.links) |->
                           [iri |-> resp.links[i], flags |-> "link"]]
                  ELSE <<>>,
         robots |-> robots,
         disallow |-> IF robots THEN resp.disallow ELSE {} ]

(***************************************************************************)
(* options.c: _read_config(), the configuration files                      *)
(*                                                                         *)
(* A line is a sequence of characters; a word of letters is one element.   *)
(* The files are named "1", "2", ...; a name matches one path in glob().    *)
(***************************************************************************)
\* 'if (++level > 20)' (options.c:2085)
MaxLevel == 20
\* the longest chain of files that include one another
MaxChain == 21
\* the most lines of a file without include
MaxLines == 3

\* the lines of the files without include
Lines ==
    { <<>>, <<" ">>, <<"a">>, <<"b">>, <<"a", "\\">>, <<"#", "b">>, <<" ", "#", "b">>,
      <<"#", "b", "\\">> }

\* file i of a chain includes file i + 1, the last file sets an option
Chain(n) ==
    [ name \in { ToString(i) : i \in 1..n } |->
         LET i == CHOOSE k \in 1..n : ToString(k) = name
         IN IF i < n THEN << <<"a">>, <<"include", " ", ToString(i + 1)>> >>
            ELSE << <<"a">> >> ]

ConfigFiles ==
    { Chain(n) : n \in 1..MaxChain }
       \cup { [name \in {"1"} |-> f] : f \in UNION { [1..k -> Lines] : k \in 1..MaxLines } }

c_isspace(c) == c = " "

\* 'while (c_isspace(*linep)) linep++' (options.c:2129-2133, 2020)
RECURSIVE SkipSpace(_)
SkipSpace(l) == IF l # <<>> /\ c_isspace(Head(l)) THEN SkipSpace(Tail(l)) ELSE l

\* 'while (len > 0 && c_isspace(linep[len - 1])) len--' (options.c:2136-2138)
RECURSIVE TrimRight(_)
TrimRight(l) ==
    IF l # <<>> /\ c_isspace(l[Len(l)]) THEN TrimRight(SubSeq(l, 1, Len(l) - 1)) ELSE l

\* a call of _read_config(cfgfile, expand) that has not yet run
Frame(file, expand) ==
    [ file |-> file, expand |-> expand, stage |-> "enter", pos |-> 1,
      append |-> FALSE, linebuf |-> <<>>, ret |-> 0 ]

\* _parse_option(): 0 if the line has no name, else 2 (a statement or an option
\* without '='; the lines of the model have no '=')
parse_option(l) == IF SkipSpace(l) = <<>> THEN 0 ELSE 2

\* one line of the loop of _read_config() (options.c:2123-2170): .frame is the call
\* afterwards, .out the line handed to _parse_option(), .include the file to include
read_line(f, line) ==
    LET next == [f EXCEPT !.pos = @ + 1]
        l1 == IF ~f.append THEN SkipSpace(line) ELSE line
        l2 == TrimRight(l1)
        linep == IF f.append THEN f.linebuf \o l2 ELSE l2
        skip == [frame |-> next, out |-> <<>>, include |-> ""]
    IN IF line = <<>> THEN skip
       ELSE IF l1 # <<>> /\ Head(l1) = "#" THEN skip
       ELSE IF l2 # <<>> /\ l2[Len(l2)] = "\\"
       THEN [skip EXCEPT !.frame = [next EXCEPT
                            !.linebuf = (IF f.append THEN f.linebuf ELSE <<>>)
                                           \o SubSeq(l2, 1, Len(l2) - 1),
                            !.append = TRUE]]
       ELSE LET n1 == [next EXCEPT !.append = FALSE,
                                   !.linebuf = IF f.append THEN linep ELSE @]
                name == SkipSpace(linep)
            IN IF parse_option(linep) = 0 THEN [skip EXCEPT !.frame = n1]
               ELSE [ frame |-> n1, out |-> <<linep>>,
                      include |-> IF Head(name) = "include" THEN name[Len(name)] ELSE "" ]

Top == rc_stack[Len(rc_stack)]

SetTop(f) == [rc_stack EXCEPT ![Len(rc_stack)] = f]

\* the entry of _read_config(): the recursion test, glob() and fopen()
\* (options.c:2085-2116)
RC_Enter ==
    /\ rc_stack # <<>>
    /\ Top.stage = "enter"
    /\ IF rc_level + 1 > MaxLevel
       THEN /\ rc_stack' = SetTop([Top EXCEPT !.stage = "return", !.ret = -2])
            /\ UNCHANGED rc_level
       ELSE IF Top.expand
       THEN /\ rc_stack' = Append(SetTop([Top EXCEPT !.stage = "glob"]),
                                  Frame(Top.file, FALSE))
            /\ rc_level' = rc_level + 1
       ELSE IF Top.file \notin DOMAIN rc_files
       THEN /\ rc_stack' = SetTop([Top EXCEPT !.stage = "return", !.ret = -1])
            /\ UNCHANGED rc_level
       ELSE /\ rc_stack' = SetTop([Top EXCEPT !.stage = "loop"])
            /\ rc_level' = rc_level + 1
    /\ UNCHANGED <<rc_files, rc_out, rc_ret, enginevars, pcvars, headvars>>

\* the loop of _read_config() reads a line (options.c:2123-2170)
RC_Line ==
    /\ rc_stack # <<>>
    /\ Top.stage = "loop"
    /\ Top.ret = 0
    /\ Top.pos <= Len(rc_files[Top.file])
    /\ LET r == read_line(Top, rc_files[Top.file][Top.pos])
       IN /\ rc_out' = rc_out \o r.out
          /\ rc_stack' = IF r.include # ""
                         THEN Append(SetTop(r.frame), Frame(r.include, TRUE))
                         ELSE SetTop(r.frame)
    /\ UNCHANGED <<rc_files, rc_level, rc_ret, enginevars, pcvars, headvars>>

\* the loop has ended: the test of append, 'level--' (options.c:2172-2183)
RC_Eof ==
    /\ rc_stack # <<>>
    /\ Top.stage = "loop"
    /\ Top.ret # 0 \/ Top.pos > Len(rc_files[Top.file])
    /\ rc_stack' = SetTop([Top EXCEPT !.stage = "return",
                                      !.ret = IF Top.append THEN -4 ELSE @])
    /\ rc_level' = rc_level - 1
    /\ UNCHANGED <<rc_files, rc_out, rc_ret, enginevars, pcvars, headvars>>

\* a call returns: to the loop of the including file ('ret = _read_config(val, 1)',
\* options.c:2164), to the call that expands the name (options.c:2094-2109), or to
\* read_config()
RC_Return ==
    /\ rc_stack # <<>>
    /\ Top.stage = "return"
    /\ LET n == Len(rc_stack)
           rest == SubSeq(rc_stack, 1, n - 1)
       IN IF n = 1
          THEN /\ rc_ret' = Top.ret
               /\ rc_stack' = <<>>
               /\ UNCHANGED rc_level
          ELSE IF rc_stack[n - 1].stage = "glob"
          THEN /\ rc_stack' = [rest EXCEPT ![n - 1].stage = "return", ![n - 1].ret = Top.ret]
               /\ rc_level' = rc_level - 1
               /\ UNCHANGED rc_ret
          ELSE /\ rc_stack' = [rest EXCEPT ![n - 1].ret = Top.ret]
               /\ UNCHANGED <<rc_level, rc_ret>>
    /\ UNCHANGED <<rc_files, rc_out, enginevars, pcvars, headvars>>

\* no configuration file is being read
ConfigRead ==
    /\ rc_files = [name \in {} |-> <<>>]
    /\ rc_stack = <<>>
    /\ rc_level = 0
    /\ rc_out = <<>>
    /\ rc_ret = 0

(***************************************************************************)
(* options.c: the values of type double of parse_timeout()                 *)
(*                                                                         *)
(* A double (IEEE 754 binary64) that is greater than 0 is a pair of a      *)
(* mantissa .m, a sequence of 53 bits with the first bit set, and an       *)
(* exponent .e: its value is .m * 2^.e. Sequences of bits are numbers of   *)
(* any size, the most significant bit first; the arithmetic works on       *)
(* digits of 4 bits.                                                       *)
(***************************************************************************)
\* the bits of the mantissa of a double
Mantissa == 53
\* the bits computed of a quotient beyond the bits of its dividend
Guard == 68
\* limits.h
INT_MAX == 2147483647

\* the element of a set of one element: The({ e : x \in {v} }) is e for the value
\* of v, computed once
The(S) == CHOOSE x \in S : TRUE

RECURSIVE ToBits(_)
ToBits(n) ==
    The({ IF v = 0 THEN <<>> ELSE Append(ToBits(v \div 2), v % 2) : v \in {n} })

RECURSIVE FromBits(_)
FromBits(b) ==
    The({ IF v = <<>> THEN 0 ELSE 2 * FromBits(SubSeq(v, 1, Len(v) - 1)) + v[Len(v)] :
             v \in {b} })

Zeros(s) == [i \in 1..s |-> 0]

RECURSIVE Strip(_)
Strip(b) == The({ IF v # <<>> /\ Head(v) = 0 THEN Strip(Tail(v)) ELSE v : v \in {b} })

\* the digits of 4 bits of a sequence of bits, and back
Nibbles(b) ==
    The({ [i \in 1..(Len(bb) \div 4) |->
               8 * bb[4 * i - 3] + 4 * bb[4 * i - 2] + 2 * bb[4 * i - 1] + bb[4 * i]] :
             bb \in {Zeros((4 - (Len(b) % 4)) % 4) \o b} })

Bits(h) ==
    The({ [i \in 1..(4 * Len(v)) |->
              LET x == v[(i - 1) \div 4 + 1]
                  p == (i - 1) % 4
              IN IF p = 0 THEN x \div 8
                 ELSE IF p = 1 THEN (x \div 4) % 2
                 ELSE IF p = 2 THEN (x \div 2) % 2
                 ELSE x % 2] : v \in {h} })

RECURSIVE ToNibbles(_)
ToNibbles(n) ==
    The({ IF v = 0 THEN <<>> ELSE Append(ToNibbles(v \div 16), v % 16) : v \in {n} })

RECURSIVE MulNibbles(_, _, _)
MulNibbles(h, m, c) ==
    IF h = <<>> THEN ToNibbles(c)
    ELSE The({ Append(MulNibbles(v[1], m, v[2] \div 16), v[2] % 16) :
                  v \in {<<SubSeq(h, 1, Len(h) - 1), h[Len(h)] * m + c>>} })

\* b * m + c
MulAdd(b, m, c) == Strip(Bits(MulNibbles(Nibbles(b), m, c)))

RECURSIVE DivNibbles(_, _, _, _)
DivNibbles(h, d, r, q) ==
    IF h = <<>> THEN [q |-> q, r |-> r]
    ELSE The({ DivNibbles(v[1], d, v[2] % d, v[3]) :
                  v \in {<<Tail(h), 16 * r + Head(h), Append(q, (16 * r + Head(h)) \div d)>>} })

\* quotient and remainder of b by d
DivRem(b, d) ==
    The({ [q |-> Strip(Bits(x.q)), r |-> x.r] : x \in {DivNibbles(Nibbles(b), d, 0, <<>>)} })

\* the double nearest to a number of more than 53 bits, a tie to the even mantissa
\* (the rounding mode of the C environment at program start); sticky: the number
\* has been cut off
RoundDouble(b, sticky) ==
    The({ LET L == Len(v)
              top == SubSeq(v, 1, Mantissa)
              rest == sticky \/ \E i \in (Mantissa + 2)..L : v[i] = 1
              up == v[Mantissa + 1] = 1 /\ (rest \/ top[Mantissa] = 1)
          IN The({ IF Len(m) > Mantissa
                   THEN [m |-> SubSeq(m, 1, Mantissa), e |-> L - Mantissa + 1]
                   ELSE [m |-> m, e |-> L - Mantissa] :
                      m \in {IF up THEN MulAdd(top, 1, 1) ELSE top} }) : v \in {b} })

RECURSIVE Pow10(_)
Pow10(k) == IF k = 0 THEN 1 ELSE 10 * Pow10(k - 1)

\* the conversion %lf of sscanf() (options.c:518) of a decimal number n / 10^k
\* with n > 0: the double nearest to it
strtod(n, k) ==
    The({ The({ [m |-> r.m, e |-> r.e - Guard] : r \in {RoundDouble(d.q, d.r # 0)} }) :
             d \in {DivRem(ToBits(n) \o Zeros(Guard), Pow10(k))} })

\* 'fval *= 1000' (options.c:519-528) with a factor of 1000 or more: the double
\* nearest to the product
fmul(x, mult) ==
    The({ [m |-> r.m, e |-> v.e + r.e] :
             v \in {x}, r \in {RoundDouble(MulAdd(x.m, mult, 0), FALSE)} })

\* 'fval > INT_MAX ? INT_MAX : (int) fval' (options.c:536, 542): the conversion to
\* int cuts the fraction off
to_int(x) ==
    The({ LET n == Mantissa + v.e
          IN IF n <= 0 THEN 0
             ELSE IF n > 31 THEN INT_MAX
             ELSE FromBits(SubSeq(v.m, 1, n)) : v \in {x} })

(***************************************************************************)
(* options.c: parse_command_line(), set_long_option() and the parsers      *)
(*                                                                         *)
(* An argument is a sequence of characters; "--", "no-", the name of an    *)
(* option and a word of a value are one element each.                      *)
(***************************************************************************)
\* a pointer that is NULL (an empty string is <<>>)
NULL == <<"(null)">>

\* static const struct optionw options[] (options.c:894): .var names the member of
\* config ("" for NULL), .short_name is "" for 0
options ==
    { [ long_name |-> "connect-timeout", var |-> "connect_timeout",
        parser |-> "parse_timeout", args |-> 1, short_name |-> "" ],
      [ long_name |-> "dns-timeout", var |-> "dns_timeout",
        parser |-> "parse_timeout", args |-> 1, short_name |-> "" ],
      [ long_name |-> "read-timeout", var |-> "read_timeout",
        parser |-> "parse_timeout", args |-> 1, short_name |-> "" ],
      [ long_name |-> "recursive", var |-> "recursive",
        parser |-> "parse_bool", args |-> -1, short_name |-> "r" ],
      [ long_name |-> "timeout", var |-> "",
        parser |-> "parse_timeout", args |-> 1, short_name |-> "T" ] }

Digits == <<"0", "1", "2", "3", "4", "5", "6", "7", "8", "9">>

c_isdigit(c) == \E i \in 1..10 : Digits[i] = c

c_isalnum(c) == c_isdigit(c) \/ c \in {"r", "T", "s", "m", "h", "d", "x", "y", "n"}

\* c_tolower() of a character, and of every character of a word
c_tolower(c) ==
    CASE c = "INF" -> "inf"
      [] c = "Infinity" -> "infinity"
      [] c = "YES" -> "yes"
      [] c = "On" -> "on"
      [] c = "N" -> "n"
      [] c = "M" -> "m"
      [] OTHER -> c

\* wget_strcasecmp_ascii(val, word) == 0
strcaseeq(val, word) == Len(val) = 1 /\ c_tolower(val[1]) = word

\* the digits at the start of a sequence of characters
RECURSIVE TakeDigits(_)
TakeDigits(s) ==
    IF s # <<>> /\ c_isdigit(Head(s)) THEN <<Head(s)>> \o TakeDigits(Tail(s)) ELSE <<>>

\* the number a sequence of digits denotes
RECURSIVE Decimal(_)
Decimal(s) ==
    The({ IF v = <<>> THEN 0
          ELSE 10 * Decimal(SubSeq(v, 1, Len(v) - 1))
               + (CHOOSE i \in 0..9 : Digits[i + 1] = v[Len(v)]) : v \in {s} })

\* 'sscanf(val, " %lf%c", &fval, &modifier)' (options.c:518): .count is the value
\* returned (0 also for the -1 of an empty input), the number read is .n / 10^.k,
\* negative if .neg; .modifier is the character after the number ("" if .count < 2).
\* The conversion reads a sign, digits, a point and digits, then one character
scan_end(neg, digits, k, rest) ==
    IF digits = <<>>
    THEN [count |-> 0, neg |-> FALSE, n |-> 0, k |-> 0, modifier |-> ""]
    ELSE [ count |-> IF rest # <<>> THEN 2 ELSE 1, neg |-> neg, n |-> Decimal(digits),
           k |-> k, modifier |-> IF rest # <<>> THEN Head(rest) ELSE "" ]

scan_fraction(neg, int, s) ==
    IF s # <<>> /\ Head(s) = "."
    THEN The({ scan_end(neg, int \o frac, Len(frac), SubSeq(s, Len(frac) + 2, Len(s))) :
                  frac \in {TakeDigits(Tail(s))} })
    ELSE scan_end(neg, int, 0, s)

scan_number(neg, s) ==
    The({ scan_fraction(neg, int, SubSeq(s, Len(int) + 1, Len(s))) :
             int \in {TakeDigits(s)} })

sscanf(val) ==
    The({ IF s # <<>> /\ Head(s) \in {"+", "-"}
          THEN scan_number(Head(s) = "-", Tail(s))
          ELSE scan_number(FALSE, s) : s \in {SkipSpace(val)} })

\* parse_bool() without the inversion of a value that is false
parse_bool_no_invert(cfg, opt, val, invert) ==
    IF opt.var = "" THEN [rc |-> 0, config |-> cfg]
    ELSE IF \/ val = NULL
            \/ val = <<"1">>
            \/ strcaseeq(val, "y") \/ strcaseeq(val, "yes") \/ strcaseeq(val, "on")
    THEN [rc |-> 0, config |-> [cfg EXCEPT ![opt.var] = ~invert]]
    ELSE IF \/ val = <<>>
            \/ val = <<"0">>
            \/ strcaseeq(val, "n") \/ strcaseeq(val, "no") \/ strcaseeq(val, "off")
    THEN [rc |-> 0, config |-> [cfg EXCEPT ![opt.var] = FALSE]]
    ELSE [rc |-> -1, config |-> cfg]

\* parse_bool() (options.c:475-489): .rc is the value returned
parse_bool(cfg, opt, val, invert) ==
    IF opt.var = "" THEN [rc |-> 0, config |-> cfg]
    ELSE IF \/ val = NULL
            \/ val = <<"1">>
            \/ strcaseeq(val, "y") \/ strcaseeq(val, "yes") \/ strcaseeq(val, "on")
    THEN [rc |-> 0, config |-> [cfg EXCEPT ![opt.var] = ~invert]]
    ELSE IF \/ val = <<>>
            \/ val = <<"0">>
            \/ strcaseeq(val, "n") \/ strcaseeq(val, "no") \/ strcaseeq(val, "off")
    THEN [rc |-> 0, config |-> [cfg EXCEPT ![opt.var] = invert]]
    ELSE [rc |-> -1, config |-> cfg]

\* the factor of a modifier (options.c:519-528), 0 for an invalid one
multiplier(sc) ==
    IF sc.count < 2 THEN 1000
    ELSE The({ IF mod = "s" THEN 1000
               ELSE IF mod = "m" THEN 60 * 1000
               ELSE IF mod = "h" THEN 60 * 60 * 1000
               ELSE IF mod = "d" THEN 60 * 60 * 24 * 1000
               ELSE 0 : mod \in {c_tolower(sc.modifier)} })

\* the timeout is stored in the variable of the option, or in all three
\* (options.c:535-543)
store_timeout(cfg, opt, fval) ==
    The({ IF opt.var # ""
          THEN [rc |-> 0, config |-> [cfg EXCEPT ![opt.var] = ms]]
          ELSE [rc |-> 0, config |-> [cfg EXCEPT !.connect_timeout = ms,
                                                 !.dns_timeout = ms,
                                                 !.read_timeout = ms]] : ms \in {fval} })

\* parse_timeout() (options.c:511-546); fval is -1 unless a number greater than 0
\* has been read and multiplied
parse_timeout(cfg, opt, val, invert) ==
    IF strcaseeq(val, "inf") \/ strcaseeq(val, "infinity") THEN store_timeout(cfg, opt, -1)
    ELSE The({ IF sc.count >= 1 /\ ~sc.neg /\ sc.n > 0
               THEN The({ IF mult = 0 THEN [rc |-> -1, config |-> cfg]
                          ELSE store_timeout(cfg, opt,
                                             to_int(fmul(strtod(sc.n, sc.k), mult))) :
                             mult \in {multiplier(sc)} })
               ELSE store_timeout(cfg, opt, -1) : sc \in {sscanf(val)} })

\* 'opt->parser(opt, value, invert)'
parser(cfg, opt, val, invert) ==
    IF opt.parser = "parse_bool" THEN parse_bool(cfg, opt, val, invert)
    ELSE parse_timeout(cfg, opt, val, invert)

\* the position of the first '=' of a name (0: none), 'strchr(name, '=')'
strchr(name) ==
    IF \E i \in 1..Len(name) : name[i] = "="
    THEN CHOOSE i \in 1..Len(name) : name[i] = "=" /\ \A j \in 1..(i - 1) : name[j] # "="
    ELSE 0

\* the parsers of strings, which take no value after "no-" (options.c:1938-1942)
StringParsers ==
    {"parse_string", "parse_stringset", "parse_stringlist", "parse_filename", "parse_filenames"}

\* the value that set_long_option() passes to the parser and the value .ret it
\* returns then, -1 for an error (options.c:1934-1982)
option_value(opt, value, value_present, invert, parsing_config) ==
    IF value_present
    THEN IF invert /\ (opt.args = 0 \/ opt.parser \in StringParsers)
         THEN [ret |-> -1, value |-> value]
         ELSE IF ~invert /\ opt.args = 0 THEN [ret |-> -1, value |-> value]
         ELSE [ret |-> 0, value |-> value]
    ELSE IF opt.args = 0 THEN [ret |-> 0, value |-> NULL]
    ELSE IF opt.args = 1
    THEN IF value = NULL THEN [ret |-> -1, value |-> value]
         ELSE IF invert /\ opt.parser \in StringParsers THEN [ret |-> 0, value |-> NULL]
         ELSE [ret |-> opt.args, value |-> value]
    ELSE IF opt.args = -1
    THEN IF ~parsing_config THEN [ret |-> 0, value |-> NULL]
         ELSE IF value # NULL THEN [ret |-> 1, value |-> value]
         ELSE [ret |-> 0, value |-> value]
    ELSE [ret |-> 0, value |-> value]

\* the search of the option and the call of its parser (options.c:1914-1987); name
\* is what follows "--", if the option came with it. The names of the model have one
\* spelling, so the search of a configuration file finds what bsearch() finds
find_option(cfg, name, value, value_present, parsing_config) ==
    The({ IF found = {} THEN [ret |-> -1, config |-> cfg]
          ELSE The({ IF v.ret < 0 THEN [ret |-> -1, config |-> cfg]
                     ELSE The({ [ ret |-> IF r.rc < 0 THEN r.rc ELSE v.ret,
                                  config |-> r.config ] :
                                   r \in {parser(cfg, The(found), v.value, Head(name) = "no-")} }) :
                        v \in {option_value(The(found), value, value_present,
                                            Head(name) = "no-", parsing_config)} }) :
             found \in {{ o \in options :
                            <<o.long_name>> = IF Head(name) = "no-" THEN Tail(name)
                                              ELSE name }} })

\* set_long_option() (options.c:1888-1988): .ret is the value returned, the number of
\* following arguments used or -1
set_long_option(cfg, name, value, parsing_config) ==
    The({ The({ IF n2 = <<>> THEN [ret |-> -1, config |-> cfg]
                ELSE find_option(cfg, n2,
                                 IF p > 0 THEN SubSeq(name, p + 1, Len(name)) ELSE value,
                                 p > 0, parsing_config) :
                   n2 \in { IF n1 # <<>> /\ Head(n1) = "--" THEN Tail(n1) ELSE n1 :
                              n1 \in {IF p > 0 THEN SubSeq(name, 1, p - 1) ELSE name} } }) :
             p \in {strchr(name)} })

\* the short options of one argument (options.c:2244-2279): chars are the characters
\* after the '-', next is the following argument (NULL: none); .used is the number
\* of following arguments used
RECURSIVE short_options(_, _, _)
short_option(cfg, opt, rest, next) ==
    IF opt.args > 0 /\ rest = <<>> /\ next = NULL
    THEN [rc |-> -1, config |-> cfg, used |-> 0]
    ELSE The({ IF opt.args > 0
               THEN [rc |-> r.rc, config |-> r.config, used |-> IF rest # <<>> THEN 0 ELSE 1]
               ELSE IF r.rc < 0 THEN [rc |-> r.rc, config |-> cfg, used |-> 0]
               ELSE short_options(r.config, rest, next) :
                  r \in {parser(cfg, opt,
                                IF opt.args > 0 THEN (IF rest # <<>> THEN rest ELSE next)
                                ELSE NULL, FALSE)} })

short_options(cfg, chars, next) ==
    IF chars = <<>> THEN [rc |-> 0, config |-> cfg, used |-> 0]
    ELSE The({ IF ~(c_isalnum(Head(chars)) /\ found # {})
               THEN [rc |-> -1, config |-> cfg, used |-> 0]
               ELSE short_option(cfg, The(found), Tail(chars), next) :
                  found \in {{ o \in options : o.short_name = Head(chars) }} })

\* the values of the boolean options tried, and of the timeouts: numbers of seconds
\* of up to 4 decimals and less than 2^31 without the point
BoolValues ==
    { <<"1">>, <<"y">>, <<"yes">>, <<"on">>, <<"0">>, <<"n">>, <<"no">>, <<"off">>,
      <<"YES">>, <<"On">>, <<"N">>, <<>>, <<"2">>, <<"maybe">> }

TimeoutValues ==
    { <<"1", "2", "3">>, <<"+", "1", "2", "3">>, <<"6", "0", ".", "2">>,
      <<"1", ".", "0", "0", "1">>, <<"4", ".", "3", "5">>, <<"0", ".", "0", "0", "1">>,
      <<"0", ".", "0", "0", "0", "5">>, <<"3", "0", "0", "0", "0", "0", "0">>,
      <<"0">>, <<"0", ".", "0">>, <<"-", "1">>, <<"-", "0", ".", "5">>,
      <<"inf">>, <<"infinity">>, <<"INF">>, <<"Infinity">>,
      <<"2", "m">>, <<"2", "M">>, <<"1", "h">>, <<"1", "d">>, <<"2", "5", "d">>,
      <<"5", "s">>, <<"5", "x">>, <<"0", "s">>, <<"maybe">>, <<>> }

\* arguments that are no options: URLs, and "-"
Operands == { <<"url">>, <<"n">>, <<"-">> }

BoolArgs ==
    { <<"--">> \o pre \o <<"recursive">> \o val :
          pre \in {<<>>, <<"no-">>}, val \in {<<>>} \cup { <<"=">> \o v : v \in BoolValues } }
    \cup { <<"-", "r">> }

TimeoutNames == {"timeout", "dns-timeout", "connect-timeout", "read-timeout"}

\* the command lines that give the timeout of the name the value v
TimeoutLines(name, v) ==
    { << <<"--", name, "=">> \o v >>, << <<"--", name>>, v >> }
    \cup IF name = "timeout" THEN { << <<"-", "T">> \o v >>, << <<"-", "T">>, v >> } ELSE {}

\* the command lines tried, without argv[0]
CommandLines ==
    { <<a>> : a \in BoolArgs }
    \cup { <<a, o>> : a \in BoolArgs, o \in Operands }
    \cup { <<o, a>> : a \in BoolArgs, o \in Operands }
    \cup UNION { TimeoutLines(name, v) : name \in TimeoutNames, v \in TimeoutValues }
    \cup { << <<"--", "timeout">> >>, << <<"-", "T">> >>,
           << <<"--">>, <<"-", "r">> >>, << <<"--", "no-", "timeout", "=", "5">> >>,
           << <<"--", "verbose">> >>, << <<"-", "x">> >>, << <<"-", "r", "T", "5">> >> }

\* 'argv[n]', and the test of the loop 'n < argc && first_arg != argv[n]'
\* (options.c:2212): first_arg is the position of the argument it points to (0: NULL)
Arg == argv[arg_n]

Looping == parse_pc = "args" /\ arg_n <= Len(argv) /\ first_arg # arg_n

\* an argument that is no option is moved behind the others (options.c:2215-2229)
PC_Operand ==
    /\ Looping
    /\ Arg = <<>> \/ Head(Arg) \notin {"-", "--"}
    /\ argv' = SubSeq(argv, 1, arg_n - 1) \o SubSeq(argv, arg_n + 1, Len(argv)) \o <<Arg>>
    /\ first_arg' = IF first_arg = 0 THEN Len(argv) ELSE first_arg - 1
    /\ UNCHANGED <<config, arg_n, parse_pc, parse_ret, argv0, config0, rcvars, runvars, headvars>>

\* a long option (options.c:2231-2239)
PC_Long ==
    /\ Looping
    /\ Arg # <<>> /\ Head(Arg) = "--"
    /\ IF Len(Arg) = 1
       THEN /\ parse_pc' = "done"
            /\ parse_ret' = arg_n + 1
            /\ UNCHANGED <<config, arg_n>>
       ELSE \E r \in {set_long_option(config, Tail(Arg),
                         IF arg_n < Len(argv) THEN argv[arg_n + 1] ELSE NULL, FALSE)} :
               /\ config' = r.config
               /\ IF r.ret < 0
                  THEN parse_pc' = "done" /\ parse_ret' = r.ret /\ UNCHANGED arg_n
                  ELSE arg_n' = arg_n + r.ret + 1 /\ UNCHANGED <<parse_pc, parse_ret>>
    /\ UNCHANGED <<argv, first_arg, argv0, config0, rcvars, runvars, headvars>>

\* short options, and the argument "-" (options.c:2241-2279)
PC_Short ==
    /\ Looping
    /\ Arg # <<>> /\ Head(Arg) = "-"
    /\ \E r \in {short_options(config, Tail(Arg),
                    IF arg_n < Len(argv) THEN argv[arg_n + 1] ELSE NULL)} :
          /\ config' = r.config
          /\ IF r.rc < 0
             THEN parse_pc' = "done" /\ parse_ret' = r.rc /\ UNCHANGED arg_n
             ELSE arg_n' = arg_n + r.used + r.rc + 1 /\ UNCHANGED <<parse_pc, parse_ret>>
    /\ UNCHANGED <<argv, first_arg, argv0, config0, rcvars, runvars, headvars>>

\* 'return n' (options.c:2282)
PC_Return ==
    /\ parse_pc = "args"
    /\ ~Looping
    /\ parse_pc' = "done"
    /\ parse_ret' = arg_n
    /\ UNCHANGED <<config, argv, arg_n, first_arg, argv0, config0, rcvars, runvars, headvars>>

\* no command line is being parsed
CommandLineParsed ==
    /\ argv = <<>>
    /\ arg_n = 1
    /\ first_arg = 0
    /\ parse_pc = "done"
    /\ parse_ret = 1
    /\ argv0 = <<>>
    /\ config0 = config

(***************************************************************************)
(* Initial state: main() starts with the options of the run                *)
(***************************************************************************)
NoEntry == [job |-> NoJob, acq |-> 0, rng |-> 0, range |-> <<>>, auth |-> "none",
            proxy |-> FALSE, head |-> FALSE, sent |-> FALSE, acct |-> 0]

\* .status: the calls of set_exit_status() the thread has still to make; .seen: the
\* value of exit_status the call under way has read (-1: none)
WorkerInit ==
    [ pc |-> "idle", action |-> "GET_JOB", pending |-> 0, max_pending |-> 1,
      locked |-> FALSE, host |-> NoHost, conn |-> 0, infl |-> <<>>, resp |-> NoEntry,
      status |-> <<>>, seen |-> -1 ]

\* no HEAD request is handled outside a run
NoHead ==
    [pc |-> "idle", job |-> job_init(NoIri), resp |-> NoResp, known |-> FALSE,
     out |-> [urls |-> <<>>, robots |-> FALSE, disallow |-> {}],
     fs |-> [free |-> 0, first |-> "file", kind |-> "file", last |-> "none"],
     file |-> [multiple |-> FALSE, flag |-> "O_TRUNC", suffix |-> 0, errno |-> ""]]

InitEngine(runs) ==
    /\ \E run \in runs : config = run.config /\ env = run.env
    /\ terminate = FALSE
    /\ aborted = FALSE
    /\ nsigint = 0
    /\ nsigterm = 0
    /\ blacklist = {}
    /\ hosts = [h \in Hosts |-> NoHostEntry]
    /\ jobs = <<>>
    /\ created = [u \in Iris |-> 0]
    /\ offered = [u \in Iris |-> 0]
    /\ early = {}
    /\ robots_done = {}
    /\ main_mutex = Free
    /\ downloader_mutex = Free
    /\ known_urls_mutex = Free
    /\ etags = {}
    /\ hd = [w \in Workers |-> NoHead]
    /\ todo = [t \in Threads |-> IF t = MainT THEN env.seeds ELSE <<>>]
    /\ main_pc = "start"
    /\ input_pc = "idle"
    /\ input_tid = 0
    /\ input_left = MaxInput
    /\ nthreads = 0
    /\ wk = [w \in Workers |-> WorkerInit]
    /\ quota = 0
    /\ saved = 0
    /\ exit_status = 0
    /\ reported = {}
    /\ advanced = {}
    /\ opened = {}

\* the engine starts when init() has read the configuration files
InitRuns(runs) == InitEngine(runs) /\ ConfigRead /\ CommandLineParsed

Init == InitRuns(Runs)

(***************************************************************************)
(* Condition variables (libwget): a signal wakes one waiting thread        *)
(***************************************************************************)
\* wget_thread_cond_signal(&worker_cond): the possible states of the workers afterwards
SignalWorkers(W) ==
    LET waiting == { w \in Workers : W[w].pc = "wait" }
    IN IF waiting = {} THEN {W}
       ELSE { [W EXCEPT ![w].pc = "woken"] : w \in waiting }

\* wget_thread_cond_signal(&main_cond)
SignalMain(pc) == IF pc = "wait" THEN "woken" ELSE pc

(***************************************************************************)
(* add_url_to_queue() and add_url(), by any thread                         *)
(***************************************************************************)
\* the thread is at a call of add_url_to_queue() or add_url()
Adding(t) ==
    /\ todo[t] # <<>>
    /\ IF t = MainT THEN main_pc = "seeds"
       ELSE IF t = InputT THEN input_pc = "add"
       ELSE wk[t].pc = "process"

\* the thread is at the call of html_parse() that found the URL it is about to add
InHtmlParse(t) == t \in Workers /\ Head(todo[t]).flags = "link"

\* wget_thread_mutex_lock(&known_urls_mutex) of html_parse() (wget.c:2164), and
\* wget_thread_mutex_lock(&downloader_mutex) of add_url_to_queue() and add_url()
\* (wget.c:530, 697)
AU_Lock(t) ==
    /\ ~aborted
    /\ Adding(t)
    /\ downloader_mutex # t
    /\ IF InHtmlParse(t) /\ known_urls_mutex # t
       THEN /\ known_urls_mutex = Free
            /\ known_urls_mutex' = t
            /\ UNCHANGED downloader_mutex
       ELSE /\ downloader_mutex = Free
            /\ downloader_mutex' = t
            /\ UNCHANGED known_urls_mutex
    /\ UNCHANGED <<quota, saved, exit_status, reported, statvars, optvars, headvars, config, env, terminate, aborted, nsigint, nsigterm, blacklist, hosts, jobs,
                   created, offered, early, robots_done, main_mutex,
                   todo, main_pc, input_pc, input_tid, input_left, nthreads, wk>>

\* add_url_to_queue() from blacklist_add() to the unlock, by the main thread
AU_Seed ==
    /\ ~aborted
    /\ downloader_mutex = MainT
    /\ SetQ(add_url_to_queue(QS, config, Head(todo[MainT])))
    /\ todo' = [todo EXCEPT ![MainT] = Tail(@)]
    /\ downloader_mutex' = Free
    /\ UNCHANGED <<acctvars, config, env, terminate, aborted, nsigint, nsigterm, early, robots_done,
                   main_mutex, main_pc, input_pc, input_tid, input_left, nthreads, wk>>

\* input_thread(): add_url_to_queue() from blacklist_add() on, then the signal to worker_cond
AU_Input ==
    /\ ~aborted
    /\ downloader_mutex = InputT
    /\ SetQ(add_url_to_queue(QS, config, Head(todo[InputT])))
    /\ todo' = [todo EXCEPT ![InputT] = Tail(@)]
    /\ downloader_mutex' = Free
    /\ input_pc' = "read"
    /\ wk' \in SignalWorkers(wk)
    /\ UNCHANGED <<acctvars, config, env, terminate, aborted, nsigint, nsigterm, early, robots_done,
                   main_mutex, main_pc, input_tid, input_left, nthreads>>

\* add_url() by a downloader, where html_parse() returns without the unlock of
\* known_urls_mutex
AU_UrlKeepsKnownUrls(w) ==
    /\ ~aborted
    /\ downloader_mutex = w
    /\ LET item == Head(todo[w])
           Q == add_url(QS, config, wk[w].resp.job, item.iri, item.flags)
       IN /\ SetQ(Q)
          /\ IF Q.sig THEN wk' \in SignalWorkers(wk) ELSE wk' = wk
    /\ todo' = [todo EXCEPT ![w] = Tail(@)]
    /\ downloader_mutex' = Free
    /\ known_urls_mutex' = known_urls_mutex
    /\ UNCHANGED <<quota, saved, exit_status, reported, statvars, optvars, headvars, config, env, terminate, aborted, nsigint, nsigterm, early, robots_done,
                   main_mutex, main_pc, input_pc, input_tid, input_left, nthreads>>

\* add_url() from blacklist_add() to the unlock, by a downloader; html_parse() unlocks
\* known_urls_mutex after its last URL (wget.c:2200)
AU_Url(w) ==
    /\ ~aborted
    /\ downloader_mutex = w
    /\ LET item == Head(todo[w])
           Q == add_url(QS, config, wk[w].resp.job, item.iri, item.flags)
       IN /\ SetQ(Q)
          /\ IF Q.sig THEN wk' \in SignalWorkers(wk) ELSE wk' = wk
    /\ todo' = [todo EXCEPT ![w] = Tail(@)]
    /\ downloader_mutex' = Free
    /\ known_urls_mutex' = IF known_urls_mutex = w /\ Tail(todo[w]) = <<>> THEN Free
                           ELSE known_urls_mutex
    /\ UNCHANGED <<quota, saved, exit_status, reported, statvars, optvars, headvars, config, env, terminate, aborted, nsigint, nsigterm, early, robots_done,
                   main_mutex, main_pc, input_pc, input_tid, input_left, nthreads>>

(***************************************************************************)
(* main()                                                                  *)
(***************************************************************************)
\* main(): set_exit_status(WG_EXIT_STATUS_PARSE_INIT) before init() (wget.c:1032)
M_ParseInit ==
    /\ ~aborted
    /\ main_pc = "start"
    /\ exit_status' = set_exit_status(exit_status, WG_EXIT_STATUS_PARSE_INIT)
    /\ reported' = reported \cup {WG_EXIT_STATUS_PARSE_INIT}
    /\ main_pc' = "init"
    /\ UNCHANGED <<optvars, known_urls_mutex, headvars, statvars, quota, saved, config, env, terminate, aborted, nsigint, nsigterm,
                   blacklist, hosts, jobs, created, offered, early, robots_done,
                   main_mutex, downloader_mutex, todo, input_pc, input_tid, input_left,
                   nthreads, wk>>

\* main(): init() has returned, set_exit_status(WG_EXIT_STATUS_NO_ERROR) (wget.c:1033-1037)
M_Init ==
    /\ ~aborted
    /\ main_pc = "init"
    /\ exit_status' = set_exit_status(exit_status, WG_EXIT_STATUS_NO_ERROR)
    /\ reported' = reported \cup {WG_EXIT_STATUS_NO_ERROR}
    /\ main_pc' = "seeds"
    /\ UNCHANGED <<optvars, known_urls_mutex, headvars, statvars, quota, saved, config, env, terminate, aborted, nsigint, nsigterm,
                   blacklist, hosts, jobs, created, offered, early, robots_done,
                   main_mutex, downloader_mutex, todo, input_pc, input_tid, input_left,
                   nthreads, wk>>

\* main(): the input file (wget.c:1045-1113)
M_Input ==
    /\ ~aborted
    /\ main_pc = "seeds"
    /\ todo[MainT] = <<>>
    /\ downloader_mutex # MainT
    /\ main_pc' = "check"
    /\ IF config.input = "metalink"
       THEN /\ SetQ(metalink_parse_localfile(QS, Iri("h", "/a")))
            /\ UNCHANGED <<input_pc, input_tid>>
       ELSE IF config.input = "async"
       THEN /\ input_tid' = 1
            /\ input_pc' = "read"
            /\ UNCHANGED <<blacklist, hosts, jobs, created, offered>>
       ELSE UNCHANGED <<blacklist, hosts, jobs, created, offered, input_pc, input_tid>>
    /\ UNCHANGED <<acctvars, config, env, terminate, aborted, nsigint, nsigterm, early, robots_done,
                   main_mutex, downloader_mutex, todo, input_left, nthreads, wk>>

\* main(): "Nothing to do", else the main loop is entered with main_mutex locked
M_Check ==
    /\ ~aborted
    /\ main_pc = "check"
    /\ IF queue_size(hosts) = 0 /\ input_tid = 0
       THEN main_pc' = "done" /\ UNCHANGED main_mutex
       ELSE main_mutex = Free /\ main_mutex' = MainT /\ main_pc' = "loop"
    /\ UNCHANGED <<acctvars, config, env, terminate, aborted, nsigint, nsigterm, blacklist, hosts, jobs,
                   created, offered, early, robots_done, downloader_mutex,
                   todo, input_pc, input_tid, input_left, nthreads, wk>>

\* the number of downloaders after the for loop that starts them
StartedThreads(n, cfg, hs) ==
    LET lim == IF cfg.max_threads < queue_size(hs) THEN cfg.max_threads ELSE queue_size(hs)
    IN IF n < lim THEN lim ELSE n

\* main(): 'config.quota && quota >= config.quota' (wget.c:1167)
QuotaReached == config.quota # 0 /\ quota >= config.quota

\* main(): one pass of the main loop, up to the wait on main_cond or to the break
\* for the quota (wget.c:1145-1175)
M_Loop ==
    /\ ~aborted
    /\ main_pc = "loop"
    /\ IF terminate \/ (queue_empty(hosts) /\ input_tid = 0)
       THEN /\ main_pc' = "stop"
            /\ UNCHANGED <<nthreads, wk, main_mutex>>
       ELSE /\ nthreads' = StartedThreads(nthreads, config, hosts)
            /\ wk' = [w \in Workers |->
                        IF w > nthreads /\ w <= nthreads' THEN [wk[w] EXCEPT !.pc = "start"]
                        ELSE wk[w]]
            /\ IF QuotaReached
               THEN main_pc' = "stop" /\ UNCHANGED main_mutex
               ELSE main_pc' = "wait" /\ main_mutex' = Free
    /\ UNCHANGED <<acctvars, config, env, terminate, aborted, nsigint, nsigterm, blacklist, hosts, jobs,
                   created, offered, early, robots_done, downloader_mutex,
                   todo, input_pc, input_tid, input_left>>

\* main(): return from the wait on main_cond, main_mutex locked again
M_Wake ==
    /\ ~aborted
    /\ main_pc = "woken"
    /\ main_mutex = Free
    /\ main_mutex' = MainT
    /\ main_pc' = "loop"
    /\ UNCHANGED <<acctvars, config, env, terminate, aborted, nsigint, nsigterm, blacklist, hosts, jobs,
                   created, offered, early, robots_done, downloader_mutex,
                   todo, input_pc, input_tid, input_left, nthreads, wk>>

\* main(): stop downloaders (wget.c:1178-1181)
M_Stop ==
    /\ ~aborted
    /\ main_pc = "stop"
    /\ terminate' = TRUE
    /\ wk' \in SignalWorkers(wk)
    /\ main_mutex' = Free
    /\ main_pc' = "join"
    /\ UNCHANGED <<acctvars, config, env, aborted, nsigint, nsigterm, blacklist, hosts, jobs,
                   created, offered, early, robots_done, downloader_mutex,
                   todo, input_pc, input_tid, input_left, nthreads>>

\* main(): all downloaders joined (wget.c:1183-1192), main returns
M_Join ==
    /\ ~aborted
    /\ main_pc = "join"
    /\ \A w \in Workers : w <= nthreads => wk[w].pc = "done"
    /\ main_pc' = "done"
    /\ UNCHANGED <<acctvars, config, env, terminate, aborted, nsigint, nsigterm, blacklist, hosts, jobs,
                   created, offered, early, robots_done, main_mutex, downloader_mutex,
                   todo, input_pc, input_tid, input_left, nthreads, wk>>

(***************************************************************************)
(* input_thread()                                                          *)
(***************************************************************************)
\* a line arrives on stdin
I_Read ==
    /\ ~aborted
    /\ input_pc = "read"
    /\ input_left > 0
    /\ \E u \in InputIris :
          /\ u.path # RobotsPath
          /\ todo' = [todo EXCEPT ![InputT] = <<u>>]
    /\ input_left' = input_left - 1
    /\ input_pc' = "add"
    /\ UNCHANGED <<acctvars, config, env, terminate, aborted, nsigint, nsigterm, blacklist, hosts, jobs,
                   created, offered, early, robots_done, main_mutex, downloader_mutex,
                   main_pc, input_tid, nthreads, wk>>

\* stdin is closed
I_Close ==
    /\ ~aborted
    /\ input_pc = "read"
    /\ input_tid' = 0
    /\ input_pc' = "done"
    /\ UNCHANGED <<acctvars, config, env, terminate, aborted, nsigint, nsigterm, blacklist, hosts, jobs,
                   created, offered, early, robots_done, main_mutex, downloader_mutex,
                   todo, main_pc, input_left, nthreads, wk>>

(***************************************************************************)
(* nop(), the signal handler                                               *)
(***************************************************************************)
\* nop(SIGINT)
SigInt ==
    /\ ~aborted
    /\ main_pc # "done"
    /\ nsigint' = nsigint + 1
    /\ IF terminate
       THEN aborted' = TRUE /\ UNCHANGED terminate
       ELSE terminate' = TRUE /\ UNCHANGED aborted
    /\ UNCHANGED <<acctvars, config, env, nsigterm, blacklist, hosts, jobs,
                   created, offered, early, robots_done, main_mutex, downloader_mutex,
                   todo, main_pc, input_pc, input_tid, input_left, nthreads, wk>>

\* nop(SIGTERM)
SigTerm ==
    /\ ~aborted
    /\ main_pc # "done"
    /\ nsigterm' = nsigterm + 1
    /\ aborted' = TRUE
    /\ UNCHANGED <<acctvars, config, env, terminate, nsigint, blacklist, hosts, jobs,
                   created, offered, early, robots_done, main_mutex, downloader_mutex,
                   todo, main_pc, input_pc, input_tid, input_left, nthreads, wk>>

(***************************************************************************)
(* downloader_thread()                                                     *)
(***************************************************************************)
OtherVarsW == <<acctvars, config, env, aborted, nsigint, nsigterm, terminate, downloader_mutex,
                main_pc, input_pc, input_tid, input_left, nthreads>>

\* the thread starts and locks main_mutex (wget.c:1843-1845)
W_Start(w) ==
    /\ ~aborted
    /\ wk[w].pc = "start"
    /\ main_mutex = Free
    /\ main_mutex' = w
    /\ wk' = [wk EXCEPT ![w].pc = "loop", ![w].locked = TRUE]
    /\ UNCHANGED <<blacklist, hosts, jobs, created, offered, early, robots_done, todo>>
    /\ UNCHANGED OtherVarsW

\* the job is dispatched although the robots job of its host has not got its response
Early(cfg, js, done, id) ==
    /\ cfg.recursive /\ cfg.robots
    /\ ~js[id].robotstxt
    /\ js[id].iri.path # RobotsPath
    /\ js[id].host \notin done

\* ACTION_GET_JOB where a thread without a job and without a pending request waits
\* although it still has a host
W_GetJobSleeps(w) ==
    /\ ~aborted
    /\ ~terminate
    /\ wk[w].pc = "loop"
    /\ wk[w].action = "GET_JOB"
    /\ LET cands == host_get_job(hosts, jobs, wk[w].host)
       IN IF cands # {}
          THEN \E id \in cands :
                  /\ jobs' = Acquire(jobs, id)
                  /\ main_mutex' = Free
                  /\ wk' = [wk EXCEPT ![w].pc = "send", ![w].locked = FALSE,
                               ![w].infl = Append(@, [NoEntry EXCEPT !.job = id,
                                                         !.acq = jobs'[id].part])]
                  /\ early' = IF Early(config, jobs, robots_done, id)
                              THEN early \cup {id} ELSE early
          ELSE /\ UNCHANGED <<jobs, early>>
               /\ IF wk[w].pending > 0
                  THEN /\ main_mutex' = Free
                       /\ wk' = [wk EXCEPT ![w].locked = FALSE, ![w].action = "GET_RESPONSE"]
                  ELSE /\ wk' = [wk EXCEPT ![w].pc = "prewait"]
                       /\ UNCHANGED main_mutex
    /\ UNCHANGED <<blacklist, hosts, created, offered, robots_done, todo>>
    /\ UNCHANGED OtherVarsW

\* ACTION_GET_JOB up to the unlock of main_mutex or the decision to wait (wget.c:1851-1868)
W_GetJob(w) ==
    /\ ~aborted
    /\ ~terminate
    /\ wk[w].pc = "loop"
    /\ wk[w].action = "GET_JOB"
    /\ LET cands == host_get_job(hosts, jobs, wk[w].host)
       IN IF cands # {}
          THEN \E id \in cands :
                  /\ jobs' = Acquire(jobs, id)
                  /\ main_mutex' = Free
                  /\ wk' = [wk EXCEPT ![w].pc = "send", ![w].locked = FALSE,
                               ![w].infl = Append(@, [NoEntry EXCEPT !.job = id,
                                                         !.acq = jobs'[id].part])]
                  /\ early' = IF Early(config, jobs, robots_done, id)
                              THEN early \cup {id} ELSE early
          ELSE /\ UNCHANGED <<jobs, early>>
               /\ IF wk[w].pending > 0
                  THEN /\ main_mutex' = Free
                       /\ wk' = [wk EXCEPT ![w].locked = FALSE, ![w].action = "GET_RESPONSE"]
                  ELSE IF wk[w].host # NoHost
                  THEN /\ wk' = [wk EXCEPT ![w].conn = 0, ![w].host = NoHost]
                       /\ UNCHANGED main_mutex
                  ELSE /\ wk' = [wk EXCEPT ![w].pc = "prewait"]
                       /\ UNCHANGED main_mutex
    /\ UNCHANGED <<blacklist, hosts, created, offered, robots_done, todo>>
    /\ UNCHANGED OtherVarsW

\* wget_thread_cond_wait(&worker_cond, &main_mutex, pause): the thread starts to wait;
\* the wait releases main_mutex, the variable 'locked' is not written (wget.c:1863)
W_CondWait(w) ==
    /\ ~aborted
    /\ wk[w].pc = "prewait"
    /\ main_mutex' = Free
    /\ wk' = [wk EXCEPT ![w].pc = "wait"]
    /\ UNCHANGED <<blacklist, hosts, jobs, created, offered, early, robots_done, todo>>
    /\ UNCHANGED OtherVarsW

\* the signalled thread returns from the wait with main_mutex locked
W_Wake(w) ==
    /\ ~aborted
    /\ wk[w].pc = "woken"
    /\ main_mutex = Free
    /\ main_mutex' = w
    /\ wk' = [wk EXCEPT ![w].pc = "loop", ![w].locked = TRUE]
    /\ UNCHANGED <<blacklist, hosts, jobs, created, offered, early, robots_done, todo>>
    /\ UNCHANGED OtherVarsW

\* _add_authorize_header(): the scheme of the challenge selected for the credentials
\* ("none": no challenge is selected); wget_strcasecmp_ascii() is 0 for equal strings
RECURSIVE selected_challenge(_, _, _)
selected_challenge(challenges, it, selected) ==
    IF it > Len(challenges) THEN selected
    ELSE IF challenges[it] # "digest" THEN challenges[it]
    ELSE IF challenges[it] # "basic"
    THEN selected_challenge(challenges, it + 1,
                            IF selected = "none" THEN challenges[it] ELSE selected)
    ELSE selected_challenge(challenges, it + 1, selected)

add_authorize_header(challenges) == selected_challenge(challenges, 1, "none")

\* http_create_request(): the scheme of the Authorization or Proxy-Authorization header
\* of the request (wget.c:3137-3141)
Authorization(job) ==
    IF job.challenges # <<>> THEN add_authorize_header(job.challenges)
    ELSE IF job.proxy_challenges # <<>> THEN add_authorize_header(job.proxy_challenges)
    ELSE "none"

\* http_create_request(): the credentials are those of the Proxy-Authorization header
\* (wget.c:3139-3140)
ProxyAuthorization(job) ==
    /\ job.challenges = <<>>
    /\ job.proxy_challenges # <<>>
    /\ add_authorize_header(job.proxy_challenges) # "none"

\* http_create_request(): the Range header of the request, first and last byte
http_create_request(job) ==
    IF job.part # 0
    THEN <<job.parts[job.part].position,
           job.parts[job.part].position + job.parts[job.part].length - 1>>
    ELSE <<>>

\* max_pending without the cases that allow one request only
MaxPendingWindow(cfg, job, conn) == cfg.http2_request_window

\* max_pending as set after the connection is established (wget.c:1885-1888)
MaxPending(cfg, job, conn) ==
    IF cfg.wait # 0 \/ job.metalink # 0 \/ conn # 2 THEN 1 ELSE cfg.http2_request_window

\* ACTION_GET_JOB from the unlock on: connect and send the request (wget.c:1870-1915)
W_Send(w) ==
    /\ ~aborted
    /\ wk[w].pc = "send"
    /\ LET n == Len(wk[w].infl)
           id == wk[w].infl[n].job
           job == jobs[id]
           pend == wk[w].pending + 1
           first == (pend = 1)
           host == IF first THEN job.host ELSE wk[w].host
       IN \E rc \in (IF env.unreliable THEN {"ok", "fail"} ELSE {"ok"})
                    \cup (IF env.tls /\ first /\ wk[w].conn = 0 THEN {"tls"} ELSE {}) :
             /\ jobs' = jobs
             /\ IF rc = "tls"
                THEN \* establish_connection() failed with WGET_E_HANDSHAKE or
                     \* WGET_E_CERTIFICATE (wget.c:1353-1358, 1878-1882)
                     /\ hosts' = host_increase_failure(
                                    [host_final_failure(hosts, host) EXCEPT
                                        ![host].tls_failed = TRUE], config, host)
                     /\ wk' = [wk EXCEPT ![w].pc = "status", ![w].action = "ERROR",
                                  ![w].status = <<WG_EXIT_STATUS_TLS>>,
                                  ![w].pending = pend, ![w].host = host]
                ELSE IF first /\ wk[w].conn = 0 /\ rc = "fail"
                THEN \* establish_connection() failed
                     /\ hosts' = host_increase_failure(hosts, config, host)
                     /\ wk' = [wk EXCEPT ![w].pc = "loop", ![w].action = "ERROR",
                                  ![w].pending = pend, ![w].host = host]
                ELSE LET conn == IF first /\ wk[w].conn = 0
                                 THEN (IF env.http2 THEN 2 ELSE 1)
                                 ELSE wk[w].conn
                         maxp == IF first THEN MaxPending(config, job, conn)
                                 ELSE wk[w].max_pending
                     IN IF config.wait # 0 /\ terminate
                        THEN \* terminate is set when the pause ends (wget.c:1892-1900)
                             /\ hosts' = hosts
                             /\ wk' = [wk EXCEPT ![w].pc = "loop",
                                          ![w].pending = pend, ![w].host = host,
                                          ![w].conn = conn, ![w].max_pending = maxp]
                        ELSE IF conn = 0 \/ (rc = "fail" /\ ~first)
                        THEN \* http_send_request() failed
                             /\ hosts' = host_increase_failure(hosts, config, host)
                             /\ wk' = [wk EXCEPT ![w].pc = "loop", ![w].action = "ERROR",
                                          ![w].pending = pend, ![w].host = host,
                                          ![w].conn = conn, ![w].max_pending = maxp]
                        ELSE /\ hosts' = hosts
                             /\ wk' = [wk EXCEPT
                                          ![w].pending = pend, ![w].host = host,
                                          ![w].conn = conn, ![w].max_pending = maxp,
                                          ![w].infl[n] = [@ EXCEPT !.sent = TRUE,
                                                             !.rng = job.part,
                                                             !.range = http_create_request(job),
                                                             !.auth = Authorization(job),
                                                             !.proxy = ProxyAuthorization(job),
                                                             !.head = job.head_first],
                                          ![w].pc = IF pend >= maxp THEN "loop" ELSE "relock",
                                          ![w].action = IF pend >= maxp THEN "GET_RESPONSE"
                                                        ELSE "GET_JOB"]
    /\ UNCHANGED <<blacklist, created, offered, early, robots_done, todo, main_mutex>>
    /\ UNCHANGED OtherVarsW

\* wget_thread_mutex_lock(&main_mutex) after the request is sent (wget.c:1914)
W_Relock(w) ==
    /\ ~aborted
    /\ wk[w].pc = "relock"
    /\ main_mutex = Free
    /\ main_mutex' = w
    /\ wk' = [wk EXCEPT ![w].pc = "loop", ![w].locked = TRUE]
    /\ UNCHANGED <<blacklist, hosts, jobs, created, offered, early, robots_done, todo>>
    /\ UNCHANGED OtherVarsW

\* ACTION_GET_RESPONSE: the thread enters http_receive_response() (wget.c:1918-1919)
W_EnterRecv(w) ==
    /\ ~aborted
    /\ ~terminate
    /\ wk[w].pc = "loop"
    /\ wk[w].action = "GET_RESPONSE"
    /\ wk' = [wk EXCEPT ![w].pc = "recv"]
    /\ UNCHANGED <<blacklist, hosts, jobs, created, offered, early, robots_done, todo,
                   main_mutex>>
    /\ UNCHANGED OtherVarsW

\* the requests whose response may come next on the connection
Answerable(W) ==
    IF W.conn = 0 THEN {}
    ELSE IF W.conn = 2 THEN { i \in 1..Len(W.infl) : W.infl[i].sent }
    ELSE { i \in 1..Len(W.infl) : W.infl[i].sent /\ \A k \in 1..(i - 1) : ~W.infl[k].sent }

RemoveAt(s, i) == [k \in 1..(Len(s) - 1) |-> IF k < i THEN s[k] ELSE s[k + 1]]

\* http_receive_response() returns NULL and the failure is not counted
W_RecvFailUncounted(w) ==
    /\ ~aborted
    /\ wk[w].pc = "recv"
    /\ env.unreliable \/ wk[w].conn = 0
    /\ hosts' = hosts
    /\ wk' = [wk EXCEPT ![w].pc = "loop", ![w].action = "ERROR"]
    /\ UNCHANGED <<blacklist, jobs, created, offered, early, robots_done, todo, main_mutex>>
    /\ UNCHANGED OtherVarsW

\* http_receive_response() returns NULL (wget.c:1920-1925)
W_RecvFail(w) ==
    /\ ~aborted
    /\ wk[w].pc = "recv"
    /\ env.unreliable \/ wk[w].conn = 0
    /\ hosts' = host_increase_failure(hosts, config, wk[w].host)
    /\ wk' = [wk EXCEPT ![w].pc = "loop", ![w].action = "ERROR"]
    /\ UNCHANGED <<blacklist, jobs, created, offered, early, robots_done, todo, main_mutex>>
    /\ UNCHANGED OtherVarsW

\* a response arrives and is processed, up to the calls of add_url() (wget.c:1927-1942)
W_Receive(w) ==
    /\ ~aborted
    /\ wk[w].pc = "recv"
    /\ \E i \in Answerable(wk[w]) :
          LET req == wk[w].infl[i]
              id == req.job
              job == jobs[id]
          IN \E resp \in Responses(env, job, req) :
                LET hdr == process_response_header(config, get_body(job, resp), resp)
                    j1 == hdr.job
                    body == IF hdr.ret # 0 THEN "none"
                            ELSE IF j1.head_first THEN "head"
                            ELSE IF j1.part # 0 THEN "part"
                            ELSE "get"
                    j2 == IF body = "head" THEN process_head_response(config, j1, resp, etags)
                          ELSE IF body = "part" THEN process_response_part(j1, resp)
                          ELSE IF body = "get" /\ resp.code = 200
                          THEN [j1 EXCEPT !.fetched = TRUE]
                          ELSE j1
                    pr == process_response(config, j1, resp)
                    h == wk[w].host
                    gh == get_header(config, job, resp, quota)
                IN /\ jobs' = [jobs EXCEPT ![id] =
                                 [j2 EXCEPT !.server_error = @ \/ ErrorResponse(job, resp)]]
                   /\ advanced' = advanced \cup
                                     {<<resp.code, add_statistics(job, resp), job.part # 0>>}
                   /\ opened' = IF gh.outfd /\ resp.code \notin {200, 206}
                                THEN opened \cup {resp.code}
                                ELSE opened
                   /\ etags' = IF body = "head" THEN head_etags(config, j1, resp, etags)
                               ELSE etags
                   /\ quota' = quota + gh.quota
                                 + (IF body \in {"part", "get"} THEN resp.body ELSE 0)
                   /\ saved' = saved + (IF gh.outfd THEN resp.body ELSE 0)
                   /\ hosts' = LET hs1 == [host_reset_failure(hosts, h) EXCEPT
                                              ![h].reset_code =
                                                 IF hosts[h].failures > 0 /\ resp.code >= 400
                                                 THEN resp.code
                                                 ELSE @]
                               IN IF body = "get" /\ pr.robots
                                  THEN [hs1 EXCEPT ![j1.host].robots = TRUE,
                                                   ![j1.host].disallow = pr.disallow]
                                  ELSE hs1
                   /\ todo' = [todo EXCEPT ![w] = hdr.urls \o
                                  (IF body = "get" THEN pr.urls ELSE <<>>)]
                   /\ LET W1 == [wk EXCEPT ![w].pc = IF hdr.status = <<>> THEN "process"
                                                     ELSE "status",
                                    ![w].status = hdr.status,
                                    ![w].infl = RemoveAt(@, i),
                                    ![w].resp = [req EXCEPT !.acct = IF body = "part"
                                                                      THEN j1.part ELSE 0]]
                      IN IF body = "head" /\ j2.parts # <<>>
                         THEN wk' \in SignalWorkers(W1)
                         ELSE wk' = W1
    /\ UNCHANGED <<blacklist, created, offered, early, robots_done, main_mutex>>
    /\ UNCHANGED <<optvars, known_urls_mutex, hd, exit_status, reported, config, env, aborted, nsigint, nsigterm,
                   terminate, downloader_mutex, main_pc, input_pc, input_tid, input_left,
                   nthreads>>

\* set_exit_status() in process_response_header(): the read of exit_status
\* (options.c:74, 'if (exit_status)')
W_StatusLoad(w) ==
    /\ ~aborted
    /\ wk[w].pc = "status"
    /\ wk[w].seen = -1
    /\ wk' = [wk EXCEPT ![w].seen = exit_status]
    /\ reported' = reported \cup {Head(wk[w].status)}
    /\ UNCHANGED <<optvars, known_urls_mutex, headvars, statvars, quota, saved, exit_status, config, env, terminate, aborted, nsigint,
                   nsigterm, blacklist, hosts, jobs, created, offered, early, robots_done,
                   main_mutex, downloader_mutex, todo, main_pc, input_pc, input_tid,
                   input_left, nthreads>>

\* set_exit_status(): the write of exit_status, if the value read asks for one
\* (options.c:75-78); no lock is held between the read and the write
W_StatusStore(w) ==
    /\ ~aborted
    /\ wk[w].pc = "status"
    /\ wk[w].seen # -1
    /\ LET status == Head(wk[w].status)
           new == set_exit_status(wk[w].seen, status)
       IN exit_status' = IF new # wk[w].seen THEN new ELSE exit_status
    /\ wk' = [wk EXCEPT ![w].seen = -1, ![w].status = Tail(@),
                 ![w].pc = IF Tail(wk[w].status) # <<>> THEN "status"
                           ELSE IF wk[w].action = "ERROR" THEN "loop"
                           ELSE "process"]
    /\ UNCHANGED <<optvars, known_urls_mutex, headvars, statvars, quota, saved, reported, config, env, terminate, aborted, nsigint,
                   nsigterm, blacklist, hosts, jobs, created, offered, early, robots_done,
                   main_mutex, downloader_mutex, todo, main_pc, input_pc, input_tid,
                   input_left, nthreads>>

\* ACTION_GET_RESPONSE from the lock of main_mutex on (wget.c:1944-1955)
W_Finish(w) ==
    /\ ~aborted
    /\ wk[w].pc = "process"
    /\ todo[w] = <<>>
    /\ downloader_mutex # w
    /\ main_mutex = Free
    /\ main_mutex' = w
    /\ LET id == wk[w].resp.job
           remove == jobs[id].inuse
       IN /\ hosts' = IF remove THEN host_remove_job(hosts, wk[w].host, id) ELSE hosts
          /\ robots_done' = IF remove /\ jobs[id].robotstxt THEN robots_done \cup {jobs[id].host}
                            ELSE robots_done
    /\ main_pc' = SignalMain(main_pc)
    /\ wk' = [wk EXCEPT ![w].pc = "loop", ![w].locked = TRUE, ![w].resp = NoEntry,
                 ![w].pending = @ - 1, ![w].action = "GET_JOB"]
    /\ UNCHANGED <<blacklist, jobs, created, offered, early, todo>>
    /\ UNCHANGED <<acctvars, config, env, aborted, nsigint, nsigterm, terminate, downloader_mutex,
                   input_pc, input_tid, input_left, nthreads>>

\* ACTION_ERROR (wget.c:1957-1968)
W_Error(w) ==
    /\ ~aborted
    /\ ~terminate
    /\ wk[w].pc = "loop"
    /\ wk[w].action = "ERROR"
    /\ main_mutex = Free
    /\ main_mutex' = w
    /\ jobs' = host_release_jobs(jobs, wk[w].infl)
    /\ main_pc' = SignalMain(main_pc)
    /\ wk' = [wk EXCEPT ![w].conn = 0, ![w].locked = TRUE, ![w].host = NoHost,
                 ![w].pending = 0, ![w].infl = <<>>, ![w].action = "GET_JOB"]
    /\ UNCHANGED <<blacklist, hosts, created, offered, early, robots_done, todo>>
    /\ UNCHANGED <<acctvars, config, env, aborted, nsigint, nsigterm, terminate, downloader_mutex,
                   input_pc, input_tid, input_left, nthreads>>

\* the loop ends on terminate and main_mutex is unlocked whatever 'locked' says
W_ExitUnlocks(w) ==
    /\ ~aborted
    /\ terminate
    /\ wk[w].pc = "loop"
    /\ main_mutex' = Free
    /\ \E W \in SignalWorkers([wk EXCEPT ![w].pc = "done", ![w].locked = FALSE,
                                  ![w].conn = 0]) : wk' = W
    /\ UNCHANGED <<blacklist, hosts, jobs, created, offered, early, robots_done, todo>>
    /\ UNCHANGED OtherVarsW

\* the loop ends on terminate (wget.c:1847, 1975-1983)
W_Exit(w) ==
    /\ ~aborted
    /\ terminate
    /\ wk[w].pc = "loop"
    /\ main_mutex' = IF wk[w].locked THEN Free ELSE main_mutex
    /\ \E W \in SignalWorkers([wk EXCEPT ![w].pc = "done", ![w].locked = FALSE,
                                  ![w].conn = 0]) : wk' = W
    /\ UNCHANGED <<blacklist, hosts, jobs, created, offered, early, robots_done, todo>>
    /\ UNCHANGED OtherVarsW

(***************************************************************************)
(* The specification                                                       *)
(***************************************************************************)
Next ==
    \/ \E t \in Threads : AU_Lock(t)
    \/ AU_Seed
    \/ AU_Input
    \/ \E w \in Workers : AU_Url(w)
    \/ M_ParseInit
    \/ M_Init
    \/ M_Input
    \/ M_Check
    \/ M_Loop
    \/ M_Wake
    \/ M_Stop
    \/ M_Join
    \/ I_Read
    \/ I_Close
    \/ \E w \in Workers : W_Start(w)
    \/ \E w \in Workers : W_GetJob(w)
    \/ \E w \in Workers : W_CondWait(w)
    \/ \E w \in Workers : W_Wake(w)
    \/ \E w \in Workers : W_Send(w)
    \/ \E w \in Workers : W_Relock(w)
    \/ \E w \in Workers : W_EnterRecv(w)
    \/ \E w \in Workers : W_RecvFail(w)
    \/ \E w \in Workers : W_Receive(w)
    \/ \E w \in Workers : W_StatusLoad(w)
    \/ \E w \in Workers : W_StatusStore(w)
    \/ \E w \in Workers : W_Finish(w)
    \/ \E w \in Workers : W_Error(w)
    \/ \E w \in Workers : W_Exit(w)

Spec == Init /\ [][Next]_vars

\* the engine with the signal handler
NextSig ==
    \/ Next
    \/ SigInt
    \/ SigTerm

SpecSig == InitRuns(SigRuns) /\ [][NextSig]_vars

(***************************************************************************)
(* Scheduling: every thread that can take a step takes one eventually, and *)
(* a thread that waits for a mutex gets it when it is free again and again *)
(***************************************************************************)
MainStep ==
    \/ AU_Lock(MainT) \/ AU_Seed
    \/ M_ParseInit \/ M_Init
    \/ M_Input \/ M_Check \/ M_Loop \/ M_Wake \/ M_Stop \/ M_Join

InputStep ==
    \/ AU_Lock(InputT) \/ AU_Input
    \/ I_Read \/ I_Close

WorkerStep(w) ==
    \/ AU_Lock(w) \/ AU_Url(w)
    \/ W_Start(w) \/ W_GetJob(w) \/ W_CondWait(w) \/ W_Wake(w)
    \/ W_Send(w) \/ W_Relock(w) \/ W_EnterRecv(w) \/ W_RecvFail(w) \/ W_Receive(w)
    \/ W_StatusLoad(w) \/ W_StatusStore(w)
    \/ W_Finish(w) \/ W_Error(w) \/ W_Exit(w)

Fairness ==
    /\ SF_vars(MainStep)
    /\ SF_vars(InputStep)
    /\ \A w \in Workers : SF_vars(WorkerStep(w))

\* URLs from standard input, under fair scheduling
SpecLive == InitRuns(LiveRuns) /\ [][Next]_vars /\ Fairness

\* the engine with the signal handler, under fair scheduling
SpecSigLive == InitRuns(SigRuns) /\ [][NextSig]_vars /\ Fairness

\* read_config() reads one configuration file ('ret = _read_config(cfgfile, 1)',
\* options.c:2191)
InitConfig ==
    /\ InitEngine({[config |-> Options, env |-> Environment]})
    /\ rc_files \in ConfigFiles
    /\ rc_stack = <<Frame("1", TRUE)>>
    /\ rc_level = 0
    /\ rc_out = <<>>
    /\ rc_ret = 0
    /\ CommandLineParsed

NextConfig ==
    \/ RC_Enter
    \/ RC_Line
    \/ RC_Eof
    \/ RC_Return

SpecConfig == InitConfig /\ [][NextConfig]_vars

\* init() parses one command line ('parse_command_line(argc, argv)', options.c:2426)
InitOptions ==
    /\ InitEngine({ [config |-> [Options EXCEPT !.recursive = r], env |-> Environment] :
                        r \in BOOLEAN })
    /\ ConfigRead
    /\ argv \in CommandLines
    /\ arg_n = 1
    /\ first_arg = 0
    /\ parse_pc = "args"
    /\ parse_ret = 0
    /\ argv0 = argv
    /\ config0 = config

NextOptions ==
    \/ PC_Operand
    \/ PC_Long
    \/ PC_Short
    \/ PC_Return

SpecOptions == InitOptions /\ [][NextOptions]_vars

(***************************************************************************)
(* process_head_response() on the responses to the HEAD requests of two    *)
(* downloaders                                                             *)
(***************************************************************************)
\* the options under which HEAD requests are sent
HeadRuns ==
    { [ config |-> [Options EXCEPT !.spider = s, !.recursive = r, !.chunk_size = c],
        env |-> Environment ] : s \in BOOLEAN, r \in BOOLEAN, c \in {0, ChunkSize} }

\* the answers of the server to a HEAD request
HeadResponses ==
    { [NoResp EXCEPT !.code = 200, !.ctype = t, !.etag = e] :
         t \in {"", "html", "css", "xml", "plain", "png"}, e \in {"", "e1"} }
    \cup { [NoResp EXCEPT !.code = 404, !.ctype = "html"] }

\* a downloader has sent the HEAD request of a job with head_first set
H_Send(w) ==
    /\ hd[w].pc = "idle"
    /\ \E sitemap \in BOOLEAN :
          hd' = [hd EXCEPT ![w].pc = "head",
                           ![w].job = [job_init(Iri("h", "/a")) EXCEPT
                                          !.host = "h", !.inuse = TRUE,
                                          !.head_first = TRUE, !.sitemap = sitemap]]
    /\ UNCHANGED <<etags, enginevars, optvars>>

\* the response arrives and process_head_response() handles it (wget.c:1933-1934)
H_Receive(w) ==
    /\ hd[w].pc = "head"
    /\ \E resp \in HeadResponses :
          /\ hd' = [hd EXCEPT ![w].pc = "done",
                              ![w].job = process_head_response(config, hd[w].job, resp, etags),
                              ![w].resp = resp,
                              ![w].known = (resp.etag \in etags)]
          /\ etags' = head_etags(config, hd[w].job, resp, etags)
    /\ UNCHANGED <<enginevars, optvars>>

NextHead ==
    \/ \E w \in Workers : H_Send(w)
    \/ \E w \in Workers : H_Receive(w)

SpecHead == InitRuns(HeadRuns) /\ [][NextHead]_vars

(***************************************************************************)
(* process_response() on responses that carry Link headers (RFC 6249)      *)
(***************************************************************************)
\* recursive retrieval of the site "deep": the document /c links /d
LinkRuns ==
    { [ config |-> [Options EXCEPT !.recursive = TRUE],
        env |-> [Environment EXCEPT !.site = "deep"] ] }

\* the most Link headers of a response
MaxLinks == 2

\* the Link headers: rel, type and pri
LinkKinds ==
    { [rel |-> "describedby", type |-> t, pri |-> 0] :
         t \in {"", "Application/Metalink4+XML", "application/metalink+xml",
                "application/x-bittorrent"} }
    \cup { [rel |-> "duplicate", type |-> "", pri |-> p] : p \in {1, 2} }
    \cup { [rel |-> "other", type |-> "", pri |-> 0] }

\* the Link headers of a response, header i points to /i of the host m
LinkHeaders ==
    UNION { { [i \in 1..n |-> [rel |-> k[i].rel, type |-> k[i].type, pri |-> k[i].pri,
                               uri |-> Iri("m", "/" \o ToString(i))]] :
                 k \in [1..n -> LinkKinds] } : n \in 0..MaxLinks }

\* the answers of the server to the GET request of /c: the document, with Link headers
LinkResponses ==
    { [NoResp EXCEPT !.code = 200, !.length = 1, !.body = 1, !.ctype = "html",
                     !.links = <<Iri("h", "/d")>>, !.hlinks = ls] : ls \in LinkHeaders }

\* a downloader has sent the GET request of a job
L_Send(w) ==
    /\ hd[w].pc = "idle"
    /\ hd' = [hd EXCEPT ![w].pc = "get",
                        ![w].job = [job_init(Iri("h", "/c")) EXCEPT
                                       !.host = "h", !.inuse = TRUE]]
    /\ UNCHANGED <<etags, enginevars, optvars>>

\* the response arrives and process_response() handles it (wget.c:1937-1938)
L_Receive(w) ==
    /\ hd[w].pc = "get"
    /\ \E resp \in LinkResponses :
          hd' = [hd EXCEPT ![w].pc = "done",
                           ![w].resp = resp,
                           ![w].out = process_response(config, hd[w].job, resp)]
    /\ UNCHANGED <<etags, enginevars, optvars>>

NextLink ==
    \/ \E w \in Workers : L_Send(w)
    \/ \E w \in Workers : L_Receive(w)

SpecLink == InitRuns(LinkRuns) /\ [][NextLink]_vars

(***************************************************************************)
(* _prepare_file() and _open_unique(): the file that a body is saved to    *)
(*                                                                         *)
(* A directory is described for one file name: the name itself is suffix 0 *)
(* and name.i is suffix i. The names of the suffixes below fs.free exist,  *)
(* as files or as directories; the name of the suffix fs.free does not     *)
(* exist, and it can be created or not.                                    *)
(***************************************************************************)
\* open(): the errno for the name of suffix i, "" if the file is opened
wa_open(fs, flag, i) ==
    LET name == IF i >= fs.free THEN (IF i = fs.free THEN fs.last ELSE "none")
                ELSE IF i = 0 THEN fs.first
                ELSE fs.kind
    IN IF name = "dir" THEN "EISDIR"
       ELSE IF name = "denied" THEN "EACCES"
       ELSE IF name = "file" /\ flag = "O_EXCL" THEN "EEXIST"
       ELSE ""

\* _open_unique(): '(multiple && errno == EEXIST) || errno == EISDIR' (wget.c:2626)
retry(multiple, errno) == (multiple /\ errno = "EEXIST") \/ errno = "EISDIR"

RECURSIVE NDigits(_)
\* the decimal digits of i: i < lim with lim = 10^n_digits (wget.c:2623) means that i
\* has at most n_digits digits
NDigits(i) == IF i < 10 THEN 1 ELSE 1 + NDigits(i \div 10)

\* _open_unique(): the first suffix whose open() does not fail with an errno of
\* retry(). The names of the suffixes 1 .. fs.free - 1 are of one kind, so it is
\* one of 0, 1, fs.free and fs.free + 1
loop_stop(fs, flag, multiple) ==
    CHOOSE j \in {0, 1, fs.free, fs.free + 1} :
       /\ ~retry(multiple, wa_open(fs, flag, j))
       /\ \A k \in {0, 1, fs.free, fs.free + 1} :
             k < j => retry(multiple, wa_open(fs, flag, k))

\* _open_unique(): the last suffix that the loop 'for (i = 1; i < lim && fd < 0 &&
\* ...; i++)' tries (wget.c:2626-2629), 0 if it tries none: the loop goes on to the
\* suffix stop, unless lim = 10^n_digits ends it before
loop_last(stop, n_digits) ==
    IF n_digits <= 0 THEN 0
    ELSE IF NDigits(stop) <= n_digits THEN stop
    ELSE Pow10(n_digits) - 1

\* _open_unique() with unique empty: the suffix of the last name tried and the errno
\* of its open() (wget.c:2607-2632)
open_unique(fs, flag, multiple, unique_len, fname_len) ==
    IF wa_open(fs, flag, 0) = "" \/ unique_len < fname_len + 3
    THEN [suffix |-> 0, errno |-> wa_open(fs, flag, 0)]
    ELSE [suffix |-> loop_last(loop_stop(fs, flag, multiple), unique_len - fname_len - 2),
          errno |-> wa_open(fs, flag,
                            loop_last(loop_stop(fs, flag, multiple),
                                      unique_len - fname_len - 2))]

\* strlen() of the file name "index"
strlen(fname) == Len(<<"i", "n", "d", "e", "x">>)

\* the length of ".html" (wget.c:2709)
ExtLength == Len(<<".", "h", "t", "m", "l">>)

\* 'fname_length += 16' (wget.c:2751)
UniqueExtra == 16

\* _prepare_file(): the flag and multiple for a file that is not the output document
\* (wget.c:2753-2777), then _open_unique() with unique of fname_length + 1 bytes
\* (wget.c:2783-2812); the response is an HTML document
prepare_file(cfg, fs, fname, oflag) ==
    LET ext == IF cfg.adjust_extension /\ strlen(fname) >= ExtLength THEN ExtLength ELSE 0
        dirs == cfg.recursive /\ cfg.directories
        multiple == ~cfg.timestamping /\ ~(~cfg.clobber \/ dirs) /\ oflag # "O_APPEND"
        flag == IF cfg.timestamping THEN oflag
                ELSE IF ~cfg.clobber \/ dirs
                THEN (IF oflag = "O_TRUNC" /\ ~dirs THEN "O_EXCL" ELSE oflag)
                ELSE IF oflag # "O_APPEND" THEN "O_EXCL"
                ELSE oflag
        fd == open_unique(fs, flag, multiple, strlen(fname) + UniqueExtra + 1,
                          strlen(fname) + ext)
    IN [multiple |-> multiple, flag |-> flag, suffix |-> fd.suffix, errno |-> fd.errno]

\* the options that decide how a file is opened
FileRuns ==
    { [ config |-> [Options EXCEPT !.timestamping = t, !.clobber = c, !.adjust_extension = a],
        env |-> Environment ] :
         t \in BOOLEAN, c \in BOOLEAN, a \in BOOLEAN }

\* the directories
FileSystems ==
    { [free |-> f, first |-> k0, kind |-> k, last |-> l] :
         f \in {1, 2, 999, 1000}, k0 \in {"file", "dir"}, k \in {"file", "dir"},
         l \in {"none", "denied"} }
    \cup { [free |-> 0, first |-> "file", kind |-> "file", last |-> l] :
              l \in {"none", "denied"} }

\* _get_header() calls _prepare_file() for the body of a response (wget.c:2911)
F_Open(w) ==
    /\ hd[w].pc = "idle"
    /\ \E fs \in FileSystems, oflag \in {"O_TRUNC", "O_APPEND"} :
          hd' = [hd EXCEPT ![w].pc = "done",
                           ![w].fs = fs,
                           ![w].file = prepare_file(config, fs, "index", oflag)]
    /\ UNCHANGED <<etags, enginevars, optvars>>

NextFile == \E w \in Workers : F_Open(w)

SpecFile == InitRuns(FileRuns) /\ [][NextFile]_vars

(***************************************************************************)
(* Properties                                                              *)
(***************************************************************************)
TypeOK ==
    /\ main_mutex \in Workers \cup {MainT, Free}
    /\ downloader_mutex \in Threads \cup {Free}
    /\ known_urls_mutex \in Workers \cup {Free}
    /\ etags \subseteq {"", "e1"}
    /\ \A w \in Workers : wk[w].pending \in 0..3

\* the jobs a running downloader holds as a whole: acquired, the response not yet finished
HeldJobs(w) ==
    IF wk[w].pc \in {"idle", "done"} THEN {}
    ELSE { wk[w].infl[i].job : i \in { k \in 1..Len(wk[w].infl) : wk[w].infl[k].acq = 0 } }
         \cup (IF wk[w].pc \in {"process", "status"} /\ wk[w].resp.acq = 0
               THEN {wk[w].resp.job} ELSE {})

\* C1: at most one worker holds a job at any time: a job that one worker has acquired
\* is not acquired by another before the first has finished GET_RESPONSE for it
C1_OneWorkerPerJob ==
    \A w1, w2 \in Workers : w1 # w2 => HeldJobs(w1) \cap HeldJobs(w2) = {}

\* C2: with recursion and robots, no ordinary job of a host is dispatched before the
\* robots job of the host has completed or failed
C2_RobotsFirst == early = {}

\* C3: every job in the queue of a host has a URI that is in the blacklist
C3_QueuedInBlacklist ==
    \A id \in Queued(hosts) : jobs[id].iri \in blacklist

\* C4: the blacklist only grows, and at most one job is ever created for a URI,
\* whichever threads offer it and however often
C4_AdmitOnce ==
    /\ [](\A u \in Iris : created[u] <= 1)
    /\ [][blacklist \subseteq blacklist']_vars

\* a URI has been offered twice and has one job
C4_OfferedTwice ==
    \E u \in Iris : offered[u] >= 2 /\ created[u] = 1

\* the ids a job can have
JobIds == 1..(Cardinality(Iris) + 1)

\* the job waits in the queue of a host that is not blocked, and terminate is not set
Enqueued(id) ==
    /\ id \in DOMAIN jobs
    /\ id \in Queued(hosts)
    /\ ~hosts[jobs[id].host].blocked
    /\ ~terminate

\* a worker has acquired the job (or a part of it), or the job has left the queue
Acquired(id) ==
    /\ id \in DOMAIN jobs
    /\ \/ id \notin Queued(hosts)
       \/ hosts[jobs[id].host].blocked
       \/ jobs[id].inuse
       \/ \E i \in 1..Len(jobs[id].parts) : jobs[id].parts[i].inuse \/ jobs[id].parts[i].done

\* C5: under fair scheduling, every job enqueued while terminate is not set, on a host
\* that is not blocked, is eventually acquired by a worker
C5_EnqueuedIsAcquired ==
    \A id \in JobIds : Enqueued(id) ~> Acquired(id)

\* C6: if every request yields a response or an error and the input ends, main returns
C6_RunTerminates == <>(main_pc = "done")

\* C7: after the first interrupt every worker exits, and main leaves its wait, joins the
\* workers and returns (unless the process is aborted)
C7_InterruptDrains ==
    (nsigint >= 1) ~> (aborted \/ (main_pc = "done" /\ \A w \in Workers : wk[w].pc \in {"idle", "done"}))

\* C8: the process is aborted only by SIGTERM or by a second SIGINT
C8_AbortNeedsKillOrSecondInt ==
    aborted => (nsigterm >= 1 \/ nsigint >= 2)

\* C9: pending is between 0 and max_pending, max_pending is 1 on HTTP/1.1 and at most
\* http2_request_window on HTTP/2, GET_RESPONSE is entered with pending >= 1 only, and
\* a received response takes exactly one from pending
C9_PendingWithinWindow ==
    /\ [](\A w \in Workers :
            /\ 0 <= wk[w].pending /\ wk[w].pending <= wk[w].max_pending
            /\ wk[w].conn = 1 => wk[w].max_pending = 1
            /\ wk[w].conn = 2 => wk[w].max_pending <= config.http2_request_window
            /\ wk[w].action = "GET_RESPONSE" => wk[w].pending >= 1)
    /\ [][\A w \in Workers :
             (wk[w].pc = "process" /\ wk'[w].pc # "process")
                => wk'[w].pending = wk[w].pending - 1]_vars

\* a response is processed on an HTTP/2 connection that has two requests in flight
C9_WindowUsed ==
    \E w \in Workers : wk[w].conn = 2 /\ wk[w].pending >= 2 /\ wk[w].pc = "process"

\* C10: the request of a worker carries the Range of the part this worker acquired,
\* and its response is accounted to that part
C10_PartOfAcquirer ==
    \A w \in Workers :
       /\ \A i \in 1..Len(wk[w].infl) :
             (wk[w].infl[i].sent /\ wk[w].infl[i].acq # 0)
                => wk[w].infl[i].rng = wk[w].infl[i].acq
       /\ (wk[w].pc = "process" /\ wk[w].resp.acq # 0) => wk[w].resp.acct = wk[w].resp.acq

\* the job has parts and has been completed: validated and removed from the queue
Completed(id) ==
    /\ jobs[id].parts # <<>>
    /\ jobs[id].inuse
    /\ id \notin Queued(hosts)
    /\ ~hosts[jobs[id].host].blocked

\* C11: a completed metalink or chunked job has all its parts done, and the bytes its
\* part responses have written to the file total metalink.size
C11_WrittenIsSize ==
    \A id \in DOMAIN jobs :
       Completed(id) =>
          /\ \A i \in 1..Len(jobs[id].parts) : jobs[id].parts[i].done
          /\ jobs[id].written = jobs[id].metalink

\* the sum of the lengths of the first n parts
RECURSIVE SumLengths(_, _)
SumLengths(parts, n) ==
    IF n = 0 THEN 0 ELSE parts[n].length + SumLengths(parts, n - 1)

\* the job has the metalink that process_head_response() has synthesized
Chunked(job) == job.metalink # 0 /\ job.iri # NoIri

HeadIsChunk(job) ==
    config.chunk_size > 0 /\ ~job.head_first /\ job.head_length = config.chunk_size

\* C13 as stated: with Content-Length equal to chunk_size the job has exactly one part
C13_OnePart ==
    \A id \in DOMAIN jobs : HeadIsChunk(jobs[id]) => Len(jobs[id].parts) = 1

\* C13: with Content-Length equal to chunk_size the job gets no metalink and no part;
\* it is requested whole, by GET without Range, and not again once it has been fetched
C13_OnePlainGet ==
    /\ \A id \in DOMAIN jobs :
          HeadIsChunk(jobs[id]) => jobs[id].parts = <<>> /\ jobs[id].metalink = 0
    /\ \A w \in Workers : \A k \in 1..Len(wk[w].infl) :
          LET e == wk[w].infl[k]
          IN (e.sent /\ ~e.head /\ HeadIsChunk(jobs[e.job])) =>
                e.range = <<>> /\ ~jobs[e.job].fetched

\* the run has ended and has fetched a file of chunk_size bytes
C13_FetchedWhole ==
    \E id \in DOMAIN jobs : HeadIsChunk(jobs[id]) /\ jobs[id].fetched /\ main_pc = "done"

\* C14: the quota counter equals the total of the body bytes written to files (every
\* update adds a number of bytes, so it never decreases): it counts the bodies of the
\* saved responses and nothing else
C14_QuotaIsSaved == quota = saved

\* the quota counter never decreases
C14_QuotaMonotonic == [][quota' >= quota]_vars
\* the jobs created for the Location of a response to the job id
Successors(id) ==
    { s \in 1..Len(jobs) : jobs[s].original_url # NoIri
                            /\ jobs[s].original_url = jobs[id].iri }

\* a downloader is processing a response of the job
InProcess(id) ==
    \E w \in Workers : wk[w].pc \in {"process", "status"} /\ wk[w].resp.job = id

\* C15: a job has at most one successor; a successor has the redirection level of its
\* predecessor plus one and its referer, and exists only after the predecessor's response
\* headers have been processed and only if the predecessor's level was below max_redirect
\* (a max_redirect of 0 is the subject of C16);
\* the redirected job is removed from the queue and no further request is sent for it
C15_RedirectSuccessor ==
    \A id \in 1..Len(jobs) :
       /\ Cardinality(Successors(id)) <= 1
       /\ \A s \in Successors(id) :
             /\ jobs[id].redirected
             /\ jobs[s].redirection_level = jobs[id].redirection_level + 1
             /\ jobs[s].referer = jobs[id].referer
             /\ config.max_redirect # 0 => jobs[id].redirection_level < config.max_redirect
       /\ jobs[id].redirected =>
             /\ InProcess(id) \/ id \notin Queued(hosts)
             /\ \A w \in Workers : \A i \in 1..Len(wk[w].infl) : wk[w].infl[i].job # id
\* C16: with max_redirect = 0 no job is enqueued for the Location of a redirect
C16_NoRedirectAtZero ==
    config.max_redirect = 0 => \A id \in 1..Len(jobs) : jobs[id].redirection_level = 0
\* C17: links are followed only in a recursive run, and with level = L > 0 no document
\* more than L links away from a seed is downloaded, redirects along the way included
C17_DepthBound ==
    \A id \in 1..Len(jobs) :
       /\ jobs[id].depth > 0 => config.recursive
       /\ (config.recursive /\ config.level > 0 /\ jobs[id].fetched)
             => jobs[id].depth <= config.level
\* set_exit_status(WG_EXIT_STATUS_AUTH) has been called or is under way
AuthReported ==
    \/ WG_EXIT_STATUS_AUTH \in reported
    \/ \E w \in Workers : WG_EXIT_STATUS_AUTH \in SeqToSet(wk[w].status)

\* C18: a job gets at most two 401 responses; after the first one, if it carries
\* challenges, the job has the challenges attached; after a 401 without challenges or a
\* second 401 the exit status Auth is set and the job is removed from the queue
C18_AuthRetry ==
    \A id \in 1..Len(jobs) :
       /\ jobs[id].auth_failure_count <= 2
       /\ (jobs[id].auth_failure_count = 1 /\ ~jobs[id].auth_failed)
             => jobs[id].challenges # <<>>
       /\ jobs[id].auth_failed =>
             /\ AuthReported
             /\ InProcess(id) \/ id \notin Queued(hosts)

\* C19: a request for a job whose challenges offer Basic and Digest carries Digest
\* credentials
C19_DigestPreferred ==
    \A w \in Workers : \A i \in 1..Len(wk[w].infl) :
       LET job == jobs[wk[w].infl[i].job]
       IN (wk[w].infl[i].sent /\ {"basic", "digest"} \subseteq SeqToSet(job.challenges))
             => wk[w].infl[i].auth = "digest"
\* the lowest code of a set of status codes that are not 0 (0: the set is empty)
Lowest(S) == IF S = {} THEN 0 ELSE CHOOSE x \in S : \A y \in S : x <= y

\* no call of set_exit_status() is under way
NoCallUnderWay == \A w \in Workers : wk[w].seen = -1

\* C20: after the calls of set_exit_status() made so far, get_exit_status() returns the
\* lowest nonzero code reported, and 0 only if no nonzero code has been reported
C20_LowestNonzero ==
    NoCallUnderWay => exit_status = Lowest(reported \ {WG_EXIT_STATUS_NO_ERROR})

\* the same for the codes the downloaders report after init()
C20_LowestOfDownloaders ==
    (NoCallUnderWay /\ main_pc \notin {"start", "init"})
       => exit_status = Lowest(reported \ {WG_EXIT_STATUS_NO_ERROR, WG_EXIT_STATUS_PARSE_INIT})
\* set_exit_status(WG_EXIT_STATUS_REMOTE) has been called or is under way
RemoteReported ==
    \/ WG_EXIT_STATUS_REMOTE \in reported
    \/ \E w \in Workers : WG_EXIT_STATUS_REMOTE \in SeqToSet(wk[w].status)

\* C21: once a job has got a 4xx response other than 401 (and other than 404 for a
\* robots job) or a 5xx response, the exit status Remote has been reported
C21_RemoteOnError ==
    \A id \in 1..Len(jobs) : jobs[id].server_error => RemoteReported
\* C22: a host whose TLS handshake failed is finally failed; the downloader that met
\* the failure has no connection, has not sent the request and is on its way through
\* ERROR; and once TLS is reported, the exit status is TLS or a lower nonzero code
C22_TlsFailure ==
    /\ \A h \in Hosts : hosts[h].tls_failed => hosts[h].blocked
    /\ \A w \in Workers :
          (wk[w].pc = "status" /\ Head(wk[w].status) = WG_EXIT_STATUS_TLS)
             => /\ wk[w].conn = 0
                /\ wk[w].action = "ERROR"
                /\ \A i \in 1..Len(wk[w].infl) : ~wk[w].infl[i].sent
    /\ (WG_EXIT_STATUS_TLS \in reported /\ NoCallUnderWay)
          => (exit_status >= 1 /\ exit_status <= WG_EXIT_STATUS_TLS)
\* C23: only a 2xx or 3xx response resets the failure counter of a host: a counter
\* that was above zero has never been set back to zero by a 4xx or 5xx response
C23_ResetOnSuccessOnly ==
    \A h \in Hosts :
       hosts[h].reset_code # 0 => hosts[h].reset_code \div 100 \in {2, 3}
\* C24: with recursion and robots, a job made for a link whose path the parsed
\* robots.txt of its host disallows is never fetched
C24_DisallowedNotFetched ==
    \A id \in 1..Len(jobs) :
       LET job == jobs[id]
       IN (/\ config.recursive /\ config.robots
           /\ ~job.requested_by_user /\ ~job.robotstxt
           /\ job.referer # NoIri /\ job.original_url = NoIri
           /\ hosts[job.host].robots
           /\ job.iri.path \in hosts[job.host].disallow)
          => ~job.fetched
\* C25: no 304 response has opened a file for writing, and the only counter that a
\* 304 response has advanced is nnotmodified
C25_NotModified ==
    /\ 304 \notin opened
    /\ \A p \in advanced : p[1] = 304 => p[2] = "nnotmodified"
\* the first file has been read up to and including its line n
ReadUpTo(n) ==
    /\ Len(rc_stack) = 2
    /\ Top.stage = "loop"
    /\ Top.pos = n + 1

EndsWithBackslash(l) == l # <<>> /\ l[Len(l)] = "\\"

\* C26: a line that ends in a backslash is joined with the line that follows, a line
\* that starts with '#' is skipped, and a line that starts with '#' after a line that
\* ends in a backslash is the continuation of that line and completes it
C26_ContinuationAndComment ==
    LET file == rc_files["1"]
        first == file[1]
        second == file[2]
        plain(l) == l # <<>> /\ Head(l) \notin {"#", " ", "include"}
    IN /\ (ReadUpTo(1) /\ first # <<>> /\ Head(first) = "#") => rc_out = <<>>
       /\ (ReadUpTo(2) /\ plain(first) /\ EndsWithBackslash(first)
              /\ plain(second) /\ ~EndsWithBackslash(second))
            => rc_out = << SubSeq(first, 1, Len(first) - 1) \o second >>
       /\ (ReadUpTo(2) /\ plain(first) /\ EndsWithBackslash(first)
              /\ second # <<>> /\ Head(second) = "#" /\ ~EndsWithBackslash(second))
            => /\ rc_out = << SubSeq(first, 1, Len(first) - 1) \o second >>
               /\ ~Top.append
\* C27: a chain of up to 20 configuration files that include one another is read
\* completely, and only a longer chain fails, with the recursion error
C27_IncludeDepth ==
    LET n == Cardinality(DOMAIN rc_files)
    IN (rc_stack = <<>> /\ n > 0 /\ rc_files = Chain(n))
          => /\ n <= MaxLevel => (rc_ret = 0 /\ Len(rc_out) = 2 * n - 1)
             /\ rc_ret # 0 => (rc_ret = -2 /\ n > MaxLevel)
\* the values of a timeout that mean no timeout: 0, a negative number, inf, infinity
InfiniteValue(v) ==
    \/ v \in { <<"inf">>, <<"infinity">> }
    \/ sscanf(v).count = 1 /\ (sscanf(v).neg \/ sscanf(v).n = 0)

\* the values that are a positive number of seconds of whole milliseconds
SecondsValue(v) ==
    sscanf(v).count = 1 /\ ~sscanf(v).neg /\ sscanf(v).n > 0 /\ sscanf(v).k <= 3

\* n / 10^k seconds in milliseconds, at most INT_MAX
Milliseconds(n, k) ==
    LET whole == n \div Pow10(k)
        part == ((n % Pow10(k)) * 1000) \div Pow10(k)
    IN IF \/ whole > INT_MAX \div 1000
          \/ whole = INT_MAX \div 1000 /\ part > INT_MAX % 1000
       THEN INT_MAX
       ELSE whole * 1000 + part

\* the members of config that the timeout option of a name sets
TimeoutVars(name) ==
    IF name = "timeout" THEN {"dns_timeout", "connect_timeout", "read_timeout"}
    ELSE { o.var : o \in { x \in options : x.long_name = name } }

\* C28: a timeout option stores -1 for 0, a negative number, inf and infinity, and a
\* positive number of seconds in milliseconds, at most INT_MAX; --timeout and -T
\* store that value as the DNS, the connect and the read timeout
C28_Timeout ==
    parse_pc = "done" =>
        \A name \in TimeoutNames, v \in TimeoutValues :
            argv0 \in TimeoutLines(name, v) /\ (InfiniteValue(v) \/ SecondsValue(v)) =>
                /\ parse_ret >= 0
                /\ \A var \in TimeoutVars(name) :
                      config[var] = IF InfiniteValue(v) THEN -1
                                    ELSE Milliseconds(sscanf(v).n, sscanf(v).k)

\* --recursive or --no-recursive, bare (val = NULL) or with a value after '='
BoolArg(pre, val) ==
    <<"--">> \o pre \o <<"recursive">> \o (IF val = NULL THEN <<>> ELSE <<"=">> \o val)

\* the command lines of an option alone and with an argument that is no option
WithOperand(a) ==
    { <<a>> } \cup { <<a, o>> : o \in Operands } \cup { <<o, a>> : o \in Operands }

\* the words of a value, in any case of the letters
IsWord(val, words) == Len(val) = 1 /\ c_tolower(val[1]) \in words

\* what parsing has made of the option: true for no value and for 1, y, yes, on, false
\* for 0, n, no, off and for the values of false_too, the opposite after no-, and an
\* error without a change for any other value
BoolResult(pre, val, false_too) ==
    IF val = NULL \/ IsWord(val, {"1", "y", "yes", "on"})
    THEN parse_ret >= 0 /\ config.recursive = (pre = <<>>)
    ELSE IF IsWord(val, {"0", "n", "no", "off"}) \/ val \in false_too
    THEN parse_ret >= 0 /\ config.recursive = (pre # <<>>)
    ELSE parse_ret < 0 /\ config.recursive = config0.recursive

BoolParsed(false_too) ==
    parse_pc = "done" =>
        /\ \A pre \in {<<>>, <<"no-">>}, val \in BoolValues \cup {NULL} :
              argv0 \in WithOperand(BoolArg(pre, val)) => BoolResult(pre, val, false_too)
        /\ argv0 \in WithOperand(<<"-", "r">>) => BoolResult(<<>>, NULL, false_too)

Fails(w) == wk[w].action # "ERROR" /\ wk'[w].action = "ERROR"

Recovers(w) == wk[w].action = "ERROR" /\ wk'[w].action # "ERROR"

\* after the step none of the requests of the worker holds its job or its part
Released(w) ==
    \A i \in 1..Len(wk[w].infl) :
        LET e == wk[w].infl[i]
        IN IF e.acq = 0 THEN ~jobs'[e.job].inuse
           ELSE jobs[e.job].parts[e.acq].done \/ ~jobs'[e.job].parts[e.acq].inuse

NoJobAvailable(w) ==
    /\ ~aborted
    /\ ~terminate
    /\ wk[w].pc = "loop"
    /\ wk[w].action = "GET_JOB"
    /\ host_get_job(hosts, jobs, wk[w].host) = {}

\* the thread takes its step
Steps(w) == wk'[w] # wk[w]

InLoop == {"loop", "prewait", "send", "relock", "recv", "status", "process"}

\* the places where the thread connects, pauses, sends, receives and processes
Unlocked == {"send", "relock", "recv", "status", "process"}

\* 'locked' says whether the thread holds main_mutex; the thread holds
\* it when it asks for a job and when it decides to wait or to leave for lack of
\* threads, and holds it neither where it is about to lock it nor while it
\* connects, pauses, sends, receives or processes a response
LockedIsHeld ==
    \A w \in Workers :
       /\ wk[w].pc \in InLoop => (wk[w].locked <=> main_mutex = w)
       /\ wk[w].pc \notin InLoop => main_mutex # w
       /\ wk[w].pc \in Unlocked => main_mutex # w
       /\ wk[w].pc = "prewait" => main_mutex = w
       /\ wk[w].pc = "loop" /\ wk[w].action = "GET_JOB" /\ ~terminate => main_mutex = w
       /\ wk[w].pc = "loop" /\ wk[w].action # "GET_JOB" => main_mutex # w

\* main_mutex is unlocked by the thread that holds it only; a job is taken
\* from the queue, removed from it and released with main_mutex held; a thread that
\* ends unlocks main_mutex if and only if it holds it
LockSteps ==
    [][\A w \in Workers :
          /\ main_mutex = w /\ main_mutex' # w => Steps(w) /\ main_mutex' = Free
          /\ main_mutex # w /\ main_mutex' = w => Steps(w) /\ main_mutex = Free
          /\ Len(wk'[w].infl) > Len(wk[w].infl) => main_mutex = w
          /\ wk[w].pc = "process" /\ wk'[w].pc = "loop" => main_mutex' = w
          /\ wk[w].action = "ERROR" /\ wk'[w].action = "GET_JOB" => main_mutex' = w
          /\ wk[w].pc # "done" /\ wk'[w].pc = "done" =>
                /\ wk[w].locked <=> main_mutex = w
                /\ main_mutex' = IF main_mutex = w THEN Free ELSE main_mutex]_vars

WaitsFor(t) ==
    IF t \in Workers
    THEN IF \/ wk[t].pc \in {"start", "relock", "woken"}
            \/ wk[t].pc = "process" /\ todo[t] = <<>>
            \/ wk[t].pc = "loop" /\ wk[t].action = "ERROR" /\ ~terminate
         THEN main_mutex
         ELSE IF Adding(t) /\ downloader_mutex # t
         THEN (IF InHtmlParse(t) /\ known_urls_mutex # t THEN known_urls_mutex
               ELSE downloader_mutex)
         ELSE Free
    ELSE IF t = MainT
    THEN IF main_pc = "woken" \/ (main_pc = "check" /\ ~(queue_size(hosts) = 0 /\ input_tid = 0))
         THEN main_mutex
         ELSE IF Adding(t) /\ downloader_mutex # t THEN downloader_mutex
         ELSE Free
    ELSE IF Adding(t) /\ downloader_mutex # t THEN downloader_mutex
    ELSE Free

\* the thread that the thread t waits for, if t is a thread that waits
Blocker(t) == IF t = Free THEN Free ELSE WaitsFor(t)

\* C33: no thread waits for a mutex held by a thread that waits, in a cycle, for a
\* mutex the first holds; a thread that holds main_mutex holds no other mutex, and a
\* thread that holds downloader_mutex is not at the lock of known_urls_mutex
C33_NoLockCycle ==
    \A t \in Threads :
       /\ Blocker(t) # t
       /\ Blocker(Blocker(t)) # t
       /\ Blocker(Blocker(Blocker(t))) # t
       /\ Blocker(Blocker(Blocker(Blocker(t)))) # t
       /\ main_mutex = t => downloader_mutex # t /\ known_urls_mutex # t
       /\ WaitsFor(t) # Free => main_mutex # t
       /\ downloader_mutex = t => WaitsFor(t) = Free

\* a downloader that holds known_urls_mutex waits for downloader_mutex, which another
\* thread holds, while a third thread holds main_mutex
C33_NestedWait ==
    \E w \in Workers :
       /\ known_urls_mutex = w
       /\ WaitsFor(w) = downloader_mutex
       /\ downloader_mutex \in Threads \ {w}
       /\ main_mutex \in Threads \ {w, downloader_mutex}

(***************************************************************************)
(* C34: concurrent calls of set_exit_status()                              *)
(***************************************************************************)
\* the codes the downloaders have passed to set_exit_status()
ReportedByDownloaders == reported \ {WG_EXIT_STATUS_NO_ERROR, WG_EXIT_STATUS_PARSE_INIT}

\* C34: when main() has returned, the exit status is the lowest code that the
\* downloaders have reported, however their calls of set_exit_status() interleaved
C34_FinalIsLowest ==
    (main_pc = "done" /\ ~aborted) => exit_status = Lowest(ReportedByDownloaders)

(***************************************************************************)
(* C35: the response to a HEAD request in spider mode or without chunking  *)
(***************************************************************************)
\* the downloader has handled the response to a HEAD request, in spider mode or with
\* chunking off
HeadHandled(w) == hd[w].pc = "done" /\ (config.spider \/ config.chunk_size = 0)

\* the job is to be requested again, with GET
Reissued(w) == ~hd[w].job.inuse

\* the types that are parsed for a job
TypesOf(job) == ParsedTypes \cup (IF job.sitemap THEN {"xml", "gzip", "plain"} ELSE {})

\* C35: after the response to a HEAD request, in spider mode or with chunking off, the
\* job is requested again with GET only if the status is 200, the Content-Type is one
\* that is parsed for the job and the ETag, if any, was not seen before; and of the
\* jobs whose responses carry the same ETag at most one is requested again
C35_GetOnlyIfParsed ==
    /\ \A w \in Workers :
          HeadHandled(w) /\ Reissued(w) =>
             /\ hd[w].resp.code = 200
             /\ hd[w].resp.ctype \in TypesOf(hd[w].job)
             /\ hd[w].resp.etag = "" \/ ~hd[w].known
    /\ \A v, w \in Workers :
          (/\ v # w
           /\ HeadHandled(v) /\ Reissued(v)
           /\ HeadHandled(w) /\ Reissued(w)) =>
             \/ hd[v].resp.etag = ""
             \/ hd[v].resp.etag # hd[w].resp.etag

(***************************************************************************)
(* C36: 407 Proxy Authentication Required                                  *)
(***************************************************************************)
\* C36: a request sent for a job that has proxy challenges attached (by a 407 with
\* challenges) carries proxy credentials, whatever other state the job has
C36_ProxyCredentials ==
    \A w \in Workers : \A i \in 1..Len(wk[w].infl) :
       LET job == jobs[wk[w].infl[i].job]
       IN (wk[w].infl[i].sent /\ job.proxy_challenges # <<>>) => wk[w].infl[i].proxy

(***************************************************************************)
(* C37: the quota                                                          *)
(***************************************************************************)
\* the downloader sends a request in this step
Sends(w) ==
    /\ wk[w].pc = "send"
    /\ wk'[w].infl # <<>>
    /\ wk'[w].infl[Len(wk'[w].infl)].sent

\* the downloader ends in this step with a request in flight
Abandons(w) ==
    /\ wk[w].pc # "done" /\ wk'[w].pc = "done"
    /\ \E i \in 1..Len(wk[w].infl) : wk[w].infl[i].sent

\* C37: once the quota is reached, no downloader sends a request, no body is saved
\* to a file any more, and no downloader ends with a request in flight
C37_SoftStop ==
    [][QuotaReached =>
          /\ \A w \in Workers : ~Sends(w)
          /\ saved' = saved
          /\ \A w \in Workers : ~Abandons(w)]_vars

(***************************************************************************)
(* C38: Link headers                                                       *)
(***************************************************************************)
\* the rel=describedby links whose type is a Metalink description
Metalinks(links) ==
    { i \in 1..Len(links) :
         links[i].rel = "describedby" /\ LowerCase(links[i].type) \in MetalinkTypes }

\* the rel=duplicate links
Duplicates(links) == { i \in 1..Len(links) : links[i].rel = "duplicate" }

\* the rel=duplicate links of the lowest pri, and of these the earliest
TopLinks(links) ==
    { i \in Duplicates(links) :
         \A j \in Duplicates(links) :
            links[i].pri < links[j].pri \/ (links[i].pri = links[j].pri /\ i <= j) }

\* the link that the claim names, as a set of at most one index
LinkTarget(links) ==
    IF Metalinks(links) # {} THEN {Lowest(Metalinks(links))} ELSE TopLinks(links)

\* C38: a response with Link headers adds the URI of the first rel=describedby link of
\* a Metalink type, else of the rel=duplicate link of the lowest pri (the earliest one
\* on ties), and nothing else of the response is processed; without such a link the
\* response is processed as one without Link headers
C38_LinkTarget ==
    \A w \in Workers :
       hd[w].pc = "done" =>
          IF LinkTarget(hd[w].resp.hlinks) # {}
          THEN /\ hd[w].out.urls =
                     << [iri |-> hd[w].resp.hlinks[The(LinkTarget(hd[w].resp.hlinks))].uri,
                         flags |-> "header"] >>
               /\ ~hd[w].out.robots
          ELSE /\ hd[w].out = process_response(config, hd[w].job,
                                               [hd[w].resp EXCEPT !.hlinks = <<>>])
               /\ hd[w].out.urls = << [iri |-> Iri("h", "/d"), flags |-> "link"] >>

\* two rel=duplicate links of the same pri: the first of the two is taken
C38_TieTaken ==
    \E w \in Workers :
       /\ hd[w].pc = "done"
       /\ Len(hd[w].resp.hlinks) = 2
       /\ hd[w].resp.hlinks[1].rel = "duplicate" /\ hd[w].resp.hlinks[2].rel = "duplicate"
       /\ hd[w].resp.hlinks[1].pri = hd[w].resp.hlinks[2].pri
       /\ hd[w].out.urls = << [iri |-> Iri("m", "/1"), flags |-> "header"] >>

(***************************************************************************)
(* C39: the statistics                                                     *)
(***************************************************************************)
\* the counter that the claim names for a response
CounterOf(code, part) ==
    IF code \in {200, 206} /\ part THEN "nchunks"
    ELSE IF code = 200 THEN "ndownloads"
    ELSE IF code \in {301, 302, 303, 307, 308} THEN "nredirects"
    ELSE IF code = 304 THEN "nnotmodified"
    ELSE "nerrors"

\* C39: a response advances the counter of its kind: ndownloads for a whole file,
\* nchunks for a part that was downloaded, nredirects for a redirect, nnotmodified
\* for a 304 and nerrors for anything else
C39_CounterOfResponse ==
    \A p \in advanced : p[2] = CounterOf(p[1], p[3])

(***************************************************************************)
(* C40: unique file names                                                  *)
(***************************************************************************)
\* the errno is already-exists in unique-name mode, or is-a-directory
Clash(file, errno) == (file.multiple /\ errno = "EEXIST") \/ errno = "EISDIR"

\* C40: the file sink tries the name, then name.1, name.2, ... in increasing order as
\* long as open() fails with already-exists (in unique-name mode) or is-a-directory:
\* the result is that of the last name tried, every name before it failed in one
\* of these two ways, and the file sink gives up after the suffix 999 only
C40_UniqueName ==
    \A w \in Workers :
       hd[w].pc = "done" =>
          /\ hd[w].file.errno = wa_open(hd[w].fs, hd[w].file.flag, hd[w].file.suffix)
          /\ \A j \in 0..(hd[w].file.suffix - 1) :
                Clash(hd[w].file, wa_open(hd[w].fs, hd[w].file.flag, j))
          /\ hd[w].file.suffix <= 999
          /\ Clash(hd[w].file, hd[w].file.errno) => hd[w].file.suffix = 999

====
